---- MODULE Spec2Model ----
(***************************************************************************)
(* OneDL (src/OneDL.py): the resolution functions of the five debrid       *)
(* providers, their cache probes, find_best_debrid and main's download     *)
(* phase, as one sequential program.  Every HTTP request the program       *)
(* issues is appended to reqs; the answer of the remote side (a status, a  *)
(* rejection, a raised network error) is chosen by the environment.        *)
(***************************************************************************)
EXTENDS Integers, Sequences, FiniteSets, TLC

\* ---------------------------------------------------------------- bounds
MaxPolls == 3   \* poll requests of one polling loop
MaxFiles == 2   \* files of a job / links of a folder
MaxTokens == 2  \* comma-separated tokens of a selection expression
MaxEntries == 2 \* key/value entries of the info dictionary of a .torrent file

\* ------------------------------------------------------------- constants
Providers == {"Real-Debrid", "AllDebrid", "Premiumize.me", "Torbox", "Debrid-Link"}

\* A URL is the sequence of its segments.
U_magnet == <<"magnet:", "btih:", "abcd">>
U_hoster == <<"https://host/", "x">>
U_folder == <<"https://", "mega.nz/folder/", "id", "#", "key">>
U_folder_file == <<"https://", "mega.nz/folder/", "id", "#", "key", "/file/", "h">>
URLS == {U_magnet, U_hoster, U_folder, U_folder_file}

VARIABLES
    tokens,   \* providers whose API token is configured (lines 78-82)
    fn,       \* the function main called
    url,      \* its argument
    pc,       \* position of the program
    loc,      \* locals of the running function
    reqs,     \* every request issued so far, in order
    result,   \* value the resolution returned
    hist,     \* observations about the run (not program state)
    parse,    \* a call of the selection parser: its arguments and its outcome
    torrent   \* two .torrent files and the magnets they were converted to

vars == <<tokens, fn, url, pc, loc, reqs, result, hist, parse, torrent>>

\* ------------------------------------------------------------ helpers
Req(svc, ep, kind, arg) == [svc |-> svc, ep |-> ep, kind |-> kind, arg |-> arg]

Count(s, kind) == Cardinality({i \in DOMAIN s : s[i].kind = kind})

Contains(u, seg) == \E i \in DOMAIN u : u[i] = seg

RECURSIVE lstrip(_)
lstrip(u) == IF u # <<>> /\ Head(u) = " " THEN lstrip(Tail(u)) ELSE u

RECURSIVE rstrip(_)
rstrip(u) == IF u # <<>> /\ u[Len(u)] = " " THEN rstrip(SubSeq(u, 1, Len(u) - 1)) ELSE u

strip(u) == rstrip(lstrip(u))

\* The test without the strip: startswith on the string as given.
is_magnet_unstripped(u) == u # <<>> /\ Head(u) = "magnet:"

\* line 364
is_magnet(u) == LET s == strip(u) IN s # <<>> /\ Head(s) = "magnet:"

\* The folder test without its second half.
is_mega_folder_any(u) == Contains(u, "mega.nz/folder/")

\* lines 495, 704, 1634, 1857, 1949
is_mega_folder(u) == Contains(u, "mega.nz/folder/") /\ ~Contains(u, "/file/")

List(s) == [none |-> FALSE, urls |-> s]
None == [none |-> TRUE, urls |-> <<>>]

NoLocals == [job |-> "", selection_sent |-> FALSE, nfiles |-> 0,
             selected |-> <<>>, todo |-> <<>>, links |-> <<>>, status |-> "",
             services |-> <<>>, progress |-> 0]

NoHist == [polls |-> 0, select_calls |-> 0, rewaits |-> 0, ready |-> FALSE,
           interrupted |-> FALSE, reqs_at_int |-> 0, created |-> {},
           waits |-> {}, rejected |-> FALSE, probe_failed |-> {},
           debrid_entry |-> FALSE, menu |-> <<>>, seen |-> {},
           offered |-> -1, failed |-> 0, choice |-> <<"none">>]

\* No call of the selection parser.
\* No .torrent file is being converted.
NoTorrents == [files |-> <<>>, sorted_only |-> FALSE, magnets |-> <<>>]

NoParse == [parts |-> <<>>, input |-> <<>>, max_index |-> 0, at |-> "none",
            raised |-> FALSE, out |-> <<>>]

\* sorted(set): the elements of S in ascending order (line 383).
RECURSIVE SetToSeq(_)
SetToSeq(S) == IF S = {} THEN <<>>
               ELSE LET m == CHOOSE x \in S : \A y \in S : x <= y
                    IN <<m>> \o SetToSeq(S \ {m})

\* ------------------------------------------------- selection (lines 200-237, 368-383)
\* A typed string is the sequence of its characters.
Digits == <<"0", "1", "2", "3", "4", "5", "6", "7", "8", "9">>

IsAsciiDigit(c) == \E d \in DOMAIN Digits : Digits[d] = c

DigitValue(c) == (CHOOSE d \in DOMAIN Digits : Digits[d] = c) - 1

\* str.isdigit() of one character: the decimal digits, and digit characters
\* such as the superscript two, which int() does not accept.
IsDigitChar(c) == IsAsciiDigit(c) \/ c = "^2"

\* str.isdigit(): non-empty and every character a digit character.
isdigit(s) == s # <<>> /\ \A i \in DOMAIN s : IsDigitChar(s[i])

RECURSIVE DecimalValue(_)
DecimalValue(s) == IF s = <<>> THEN 0
                   ELSE 10 * DecimalValue(SubSeq(s, 1, Len(s) - 1)) + DigitValue(s[Len(s)])

\* int(s): surrounding whitespace and one sign are accepted, then decimal
\* digits only; anything else is a ValueError.
int_signed(neg, body) ==
    IF body # <<>> /\ \A i \in DOMAIN body : IsAsciiDigit(body[i])
    THEN [ok |-> TRUE, v |-> IF neg THEN 0 - DecimalValue(body) ELSE DecimalValue(body)]
    ELSE [ok |-> FALSE, v |-> 0]

int_stripped(t) ==
    IF t # <<>> /\ Head(t) \in {"+", "-"} THEN int_signed(Head(t) = "-", Tail(t))
    ELSE int_signed(FALSE, t)

int(s) == int_stripped(strip(s))

\* str.split(sep) for a one-character separator.
RECURSIVE split(_, _)
split(s, sep) ==
    IF \A i \in DOMAIN s : s[i] # sep THEN <<s>>
    ELSE LET k == CHOOSE i \in DOMAIN s : s[i] = sep /\ \A j \in 1 .. i - 1 : s[j] # sep
         IN  <<SubSeq(s, 1, k - 1)>> \o split(SubSeq(s, k + 1, Len(s)), sep)

lower(s) == [i \in DOMAIN s |-> CASE s[i] = "A" -> "a" [] s[i] = "L" -> "l" [] OTHER -> s[i]]

Adds(S) == [raised |-> FALSE, add |-> S]

\* A range given backwards is read as the same range forwards.
range_indexes_either_order(start, end, max_index) ==
    IF 1 <= start /\ start <= max_index /\ 1 <= end /\ end <= max_index
    THEN Adds((IF start <= end THEN start ELSE end) .. (IF start <= end THEN end ELSE start))
    ELSE Adds({})

\* lines 375-376
range_indexes(start, end, max_index) ==
    IF start <= end /\ 1 <= start /\ start <= max_index /\ 1 <= end /\ end <= max_index
    THEN Adds(start .. end) ELSE Adds({})

\* line 374: map(int, ...) raises ValueError, caught at line 377
range_ints(a, b, max_index) ==
    IF a.ok /\ b.ok THEN range_indexes(a.v, b.v, max_index) ELSE Adds({})

\* line 374: unpacking anything but two pieces is a ValueError too
range_part(bits, max_index) ==
    IF Len(bits) # 2 THEN Adds({}) ELSE range_ints(int(bits[1]), int(bits[2]), max_index)

\* The index is added without the check of line 381.
single_index_unchecked(idx, max_index) ==
    IF ~idx.ok THEN [raised |-> TRUE, add |-> {}] ELSE Adds({idx.v})

\* lines 380-382: int() stands outside the try
single_index(idx, max_index) ==
    IF ~idx.ok THEN [raised |-> TRUE, add |-> {}]
    ELSE IF 1 <= idx.v /\ idx.v <= max_index THEN Adds({idx.v}) ELSE Adds({})

\* lines 371-382: one token; the indexes it adds, or raised
stripped_part(part, max_index) ==
    IF Contains(part, "-") THEN range_part(split(part, "-"), max_index)
    ELSE IF isdigit(part) THEN single_index(int(part), max_index)
    ELSE Adds({})

parse_part(raw, max_index) == stripped_part(strip(raw), max_index)

parsed_next(r, rest, max_index, selection, parse_rest(_, _, _)) ==
    IF r.raised THEN [raised |-> TRUE, sel |-> <<>>]
    ELSE parse_rest(rest, max_index, selection \cup r.add)

RECURSIVE parse_parts(_, _, _)
parse_parts(parts, max_index, selection) ==
    IF parts = <<>> THEN [raised |-> FALSE, sel |-> SetToSeq(selection)]
    ELSE parsed_next(parse_part(Head(parts), max_index), Tail(parts), max_index,
                     selection, parse_parts)

\* lines 368-383
parse_selection(selection_input, max_index) ==
    parse_parts(split(selection_input, ","), max_index, {})

\* line 235: [i - 1 for i in raw if 1 <= i <= max_index]
RECURSIVE shift_in_range(_, _)
shift_in_range(raw, max_index) ==
    IF raw = <<>> THEN <<>>
    ELSE (IF 1 <= Head(raw) /\ Head(raw) <= max_index THEN <<Head(raw) - 1>> ELSE <<>>)
         \o shift_in_range(Tail(raw), max_index)

\* The indexes of parse_selection are returned as they are, 1-based.
selected_of_one_based(raw, max_index) ==
    IF raw.raised THEN [raised |-> TRUE, sel |-> <<>>]
    ELSE [raised |-> FALSE, sel |-> raw.sel]

\* lines 233-237
selected_of(raw, max_index) ==
    IF raw.raised THEN [raised |-> TRUE, sel |-> <<>>]
    ELSE [raised |-> FALSE, sel |-> shift_in_range(raw.sel, max_index)]

\* 'all' is compared without lower().
select_choice_case_sensitive(choice, max_index) ==
    IF choice = <<>> \/ choice = <<"a", "l", "l">>
    THEN [raised |-> FALSE, sel |-> [i \in 1 .. max_index |-> i - 1]]
    ELSE selected_of(parse_selection(choice, max_index), max_index)

\* lines 229-237
select_choice(choice, max_index) ==
    IF choice = <<>> \/ lower(choice) = <<"a", "l", "l">>
    THEN [raised |-> FALSE, sel |-> [i \in 1 .. max_index |-> i - 1]]
    ELSE selected_of(parse_selection(choice, max_index), max_index)

\* lines 209-237: the 0-based indexes chosen among max_index files for the
\* typed line, or raised when parse_selection raises.
select_files_interactive(max_index, typed) == select_choice(strip(typed), max_index)

\* What the operator types at a selection prompt.
Choices == { <<>>, <<"a", "l", "l">>, <<"1">>, <<"2">>, <<"1", ",", "2">>,
             <<"1", "-", "2">>, <<"2", "-", "1">>, <<"9">>, <<"x">>, <<"^2">> }

\* --------------------------------------------------------------- steps
\* The positions at the top of a resolution loop, before its poll request.
PollPcs == {"rd_poll", "ad_poll", "pm_poll", "pmn_poll", "tbw_poll", "tbn_poll", "dl_poll"}

\* The history after a poll: the status it reported, and whether the
\* function went back to the top of its loop or left the loop.
Observed(h, l, p) ==
    [h EXCEPT !.seen = @ \cup {[status |-> l.status,
                                went |-> IF p \in PollPcs THEN "poll" ELSE "leave"]}]

Step(newpc, newloc, newreqs, newresult, newhist) ==
    /\ pc' = newpc
    /\ loc' = newloc
    /\ reqs' = newreqs
    /\ result' = newresult
    /\ hist' = IF newhist.polls > hist.polls THEN Observed(newhist, newloc, newpc)
               ELSE newhist
    /\ UNCHANGED <<tokens, fn, url, parse, torrent>>

\* `return v` of the resolution function main called.
Return(v, newloc, newreqs, newhist) == Step("returned", newloc, newreqs, v, newhist)

\* An exception nothing catches: it leaves main and ends the process
\* (line 2483 catches KeyboardInterrupt only).
Raise(newloc, newreqs, newhist) == Step("raised", newloc, newreqs, result, newhist)

Polled(h) == [h EXCEPT !.polls = @ + 1]
Ready(h) == [h EXCEPT !.polls = @ + 1, !.ready = TRUE]
Asked(n, h) == [h EXCEPT !.select_calls = @ + 1, !.offered = n]

\* The history after the remote API has rejected the submit request.
Rejected(h) == [h EXCEPT !.rejected = TRUE]

\* A wait that grows with the number of polls already made.
poll_wait_backoff(f, branch, iteration) ==
    CASE f = "get_real_debrid_links" ->
            (IF branch = "selection" THEN 3 ELSE 3 + 3) * (iteration + 1)
      [] f = "get_alldebrid_links" -> 2 * (iteration + 1)
      [] f \in {"get_premiumize_links", "get_premiumize_links_from_nzb"} ->
            3 * (iteration + 1)
      [] f = "get_torbox_links" -> 5 * (iteration + 1)
      [] f = "get_torbox_links_from_nzb" ->
            (IF branch \in {"http_error", "api_error"} THEN 5 ELSE 3) * (iteration + 1)
      [] f = "get_debrid_link_links" ->
            (IF branch = "api_error" THEN 2 ELSE 3) * (iteration + 1)

\* The time.sleep calls of the resolution loops: the seconds function f waits
\* before its next poll request when this iteration took the given branch.
\* Every call sleeps a literal; the number of the iteration plays no part.
\* lines 446, 490 and 493 (Real-Debrid), 689 and 702 (AllDebrid), 843 and 990
\* (Premiumize), 1169 and 1269 (Torbox), 1405, 1410, 1451 and 1466 (Torbox
\* usenet), 1568 and 1606 (Debrid-Link).
poll_wait(f, branch, iteration) ==
    CASE f = "get_real_debrid_links" -> IF branch = "selection" THEN 3 ELSE 3 + 3
      [] f = "get_alldebrid_links" -> 2
      [] f \in {"get_premiumize_links", "get_premiumize_links_from_nzb"} -> 3
      [] f = "get_torbox_links" -> 5
      [] f = "get_torbox_links_from_nzb" ->
            IF branch \in {"http_error", "api_error"} THEN 5 ELSE 3
      [] f = "get_debrid_link_links" -> IF branch = "api_error" THEN 2 ELSE 3

\* The history after the sleep that ends an iteration of the running loop.
Slept(h, branch) ==
    [h EXCEPT !.waits = @ \cup {[branch |-> branch,
                                 secs |-> poll_wait(fn, branch, h.polls)]}]

FileLink(u, k) == u \o <<"/file/", ToString(k)>>
Ids(n) == [k \in 1 .. n |-> k]

\* ------------------------------------ extract_mega_files_from_folder (1754-1801)
IsWord(seg) == seg \in {"id", "key", "h", "x", "abcd"}

\* re.search(r"mega\.nz/folder/([a-zA-Z0-9_-]+)#([a-zA-Z0-9_-]+)", folder_url)
mega_match(u) ==
    \E i \in DOMAIN u :
        /\ i + 3 <= Len(u)
        /\ u[i] = "mega.nz/folder/" /\ IsWord(u[i + 1])
        /\ u[i + 2] = "#" /\ IsWord(u[i + 3])

\* The outcomes of extract_mega_files_from_folder(u): the number of file
\* links returned, the requests issued, and whether an exception left it.
extract_mega_files_from_folder(u, toks) ==
    IF ~mega_match(u) THEN {[n |-> 0, reqs |-> <<>>, raised |-> FALSE]}
    ELSE LET mega == Req("mega", "cs", "list", u)
             pm == Req("Premiumize.me", "transfer/directdl", "list", u)
         IN  {[n |-> k, reqs |-> <<mega>>, raised |-> FALSE] : k \in 0 .. MaxFiles}
             \cup (IF "Premiumize.me" \in toks
                   THEN {[n |-> k, reqs |-> <<mega, pm>>, raised |-> FALSE] : k \in 0 .. MaxFiles}
                        \cup {[n |-> 0, reqs |-> <<mega, pm>>, raised |-> TRUE]}
                   ELSE {[n |-> 0, reqs |-> <<mega>>, raised |-> FALSE]})

\* --------------------------------------------- get_real_debrid_links (386-548)
RD == "Real-Debrid"
RDStatuses == {"waiting_files", "waiting_files_selection", "downloaded", "magnet_error",
               "magnet_conversion", "queued", "downloading", "error", "dead", "virus",
               "unknown"}
RDWaiting == {"waiting_files", "waiting_files_selection"}

\* lines 392-402: addMagnet
get_real_debrid_links_magnet ==
    /\ pc = "call" /\ fn = "get_real_debrid_links" /\ is_magnet(url)
    /\ LET log == Append(reqs, Req(RD, "torrents/addMagnet", "submit", url)) IN
       \E answer \in {"raise", "rejected", "created"} :
          CASE answer = "raise" -> Raise(loc, log, hist)
            [] answer = "rejected" -> Return(List(<<>>), loc, log, Rejected(hist))
            [] answer = "created" ->
                 Step("rd_poll", [loc EXCEPT !.job = "rd1"], log, result, hist)

\* The flag of line 405 is never raised.
rd_selection_not_recorded(l) == l

\* line 443
rd_selection_sent(l) == [l EXCEPT !.selection_sent = TRUE]

\* lines 411-446: a poll that reports waiting_files / waiting_files_selection
get_real_debrid_links_waiting ==
    /\ pc = "rd_poll" /\ hist.polls < MaxPolls
    /\ LET log == Append(reqs, Req(RD, "torrents/info", "poll", <<loc.job>>)) IN
       \E status \in RDWaiting :
          LET l == [loc EXCEPT !.status = status] IN
          IF loc.selection_sent
          THEN Step("rd_poll", l, log, result,
                    Slept([Polled(hist) EXCEPT !.rewaits = @ + 1], "selection"))
          ELSE \E n \in 0 .. MaxFiles, typed \in Choices, sent \in {"ok", "raise"} :
               \E r \in {select_files_interactive(n, typed)} :
                  LET h == Asked(n, Polled(hist))
                      lf == [l EXCEPT !.nfiles = n, !.selected = r.sel]
                      logs == Append(log, Req(RD, "torrents/selectFiles", "select", <<loc.job>>))
                  IN  IF r.raised THEN Raise([l EXCEPT !.nfiles = n], log, h)
                      ELSE IF r.sel = <<>> THEN Return(List(<<>>), lf, log, h)
                      ELSE IF sent = "raise" THEN Raise(lf, logs, h)
                      ELSE Step("rd_poll", rd_selection_sent(lf), logs, result,
                                Slept(h, "selection"))

\* lines 447-461: a poll that reports downloaded; the links are unrestricted
\* one request at a time by get_real_debrid_links_unrestrict.
get_real_debrid_links_downloaded ==
    /\ pc = "rd_poll" /\ hist.polls < MaxPolls
    /\ LET log == Append(reqs, Req(RD, "torrents/info", "poll", <<loc.job>>)) IN
       \E n \in 0 .. MaxFiles :
          LET l == [loc EXCEPT !.status = "downloaded", !.todo = Ids(n), !.links = <<>>] IN
          IF n = 0 THEN Return(List(<<>>), l, log, Ready(hist))
          ELSE Step("rd_unlock", l, log, result, Ready(hist))

\* line 456: whether the answer of unrestrict/link gives a URL
rd_unrestricted(answer) == answer = "ok"

\* lines 449-461
get_real_debrid_links_unrestrict ==
    /\ pc = "rd_unlock"
    /\ LET link == Head(loc.todo)
           log == Append(reqs, Req(RD, "unrestrict/link", "unlock", <<"link", ToString(link)>>))
       IN  \E answer \in {"ok", "fail", "raise"} :
              LET l == [loc EXCEPT !.todo = Tail(@),
                                   !.links = IF rd_unrestricted(answer)
                                             THEN Append(@, link) ELSE @]
              IN  IF answer = "raise" THEN Raise(loc, log, hist)
                  ELSE IF l.todo = <<>> THEN Return(List(l.links), l, log, hist)
                  ELSE Step("rd_unlock", l, log, result, hist)

\* lines 462-464, 465-493: what a poll does with any other status
rd_other_status(status) == IF status = "magnet_error" THEN "return" ELSE "sleep"

get_real_debrid_links_other ==
    /\ pc = "rd_poll" /\ hist.polls < MaxPolls
    /\ LET log == Append(reqs, Req(RD, "torrents/info", "poll", <<loc.job>>)) IN
       \E status \in RDStatuses \ (RDWaiting \cup {"downloaded"}) :
          LET l == [loc EXCEPT !.status = status] IN
          IF rd_other_status(status) = "return"
          THEN Return(List(<<>>), l, log, Polled(hist))
          ELSE Step("rd_poll", l, log, result, Slept(Polled(hist), "processing"))

\* lines 407-411: the request raises, or its JSON has no "status" (KeyError)
get_real_debrid_links_poll_error ==
    /\ pc = "rd_poll" /\ hist.polls < MaxPolls
    /\ LET log == Append(reqs, Req(RD, "torrents/info", "poll", <<loc.job>>)) IN
       \E answer \in {"raise", "no_status"} :
          Raise([loc EXCEPT !.status = answer], log, Polled(hist))

\* lines 495-500: MEGA folder
get_real_debrid_links_folder ==
    /\ pc = "call" /\ fn = "get_real_debrid_links"
    /\ ~is_magnet(url) /\ is_mega_folder(url)
    /\ \E x \in extract_mega_files_from_folder(url, tokens) :
          IF x.raised THEN Raise(loc, reqs \o x.reqs, hist)
          ELSE IF x.n = 0 THEN Return(List(<<>>), loc, reqs \o x.reqs, hist)
          ELSE Step("rd_folder", [loc EXCEPT !.nfiles = x.n, !.todo = Ids(x.n)],
                    reqs \o x.reqs, result, hist)

\* lines 505-534: one unrestrict request per file link, then the selection
get_real_debrid_links_folder_unlock ==
    /\ pc = "rd_folder"
    /\ LET link == Head(loc.todo)
           log == Append(reqs, Req(RD, "unrestrict/link", "unlock", FileLink(url, link)))
       IN  \E answer \in {"ok", "fail", "raise"}, typed \in Choices :
              LET l == [loc EXCEPT !.todo = Tail(@),
                                   !.links = IF answer = "ok" THEN Append(@, link) ELSE @]
              IN  \E r \in {select_files_interactive(Len(l.links), typed)} :
                  IF answer = "raise" THEN Raise(loc, log, hist)
                  ELSE IF l.todo # <<>> THEN Step("rd_folder", l, log, result, hist)
                  ELSE IF l.links = <<>> THEN Return(List(<<>>), l, log, hist)
                  ELSE IF r.raised THEN Raise(l, log, Asked(Len(l.links), hist))
                  ELSE Return(List([k \in DOMAIN r.sel |-> l.links[r.sel[k] + 1]]),
                              [l EXCEPT !.selected = r.sel], log, Asked(Len(l.links), hist))

\* lines 536-548: hoster link; the failure path falls off the end of the
\* function, which returns None.
get_real_debrid_links_hoster ==
    /\ pc = "call" /\ fn = "get_real_debrid_links"
    /\ ~is_magnet(url) /\ ~is_mega_folder(url)
    /\ LET log == Append(reqs, Req(RD, "unrestrict/link", "unlock", url)) IN
       \E answer \in {"ok", "fail", "raise"} :
          CASE answer = "raise" -> Raise(loc, log, hist)
            [] answer = "ok" -> Return(List(<<0>>), loc, log, hist)
            [] answer = "fail" -> Return(None, loc, log, hist)

\* ----------------------------------------------- get_alldebrid_links (569-756)
AD == "AllDebrid"
ADCodes == {-1, 0, 3, 4, 5, 11}

\* lines 574-587: magnet/upload
get_alldebrid_links_magnet ==
    /\ pc = "call" /\ fn = "get_alldebrid_links" /\ is_magnet(url)
    /\ LET log == Append(reqs, Req(AD, "magnet/upload", "submit", url)) IN
       \E answer \in {"raise", "rejected", "created"} :
          CASE answer = "raise" -> Raise(loc, log, hist)
            [] answer = "rejected" -> Return(List(<<>>), loc, log, Rejected(hist))
            [] answer = "created" ->
                 Step("ad_poll", [loc EXCEPT !.job = "ad1"], log, result, hist)

\* A statusCode above 4 is waited on like one below 4.
ad_branch_no_error(code) ==
    CASE code = 4 -> "ready"
      [] OTHER -> "sleep"

\* lines 609, 667, 692, 701: the branch a statusCode takes
ad_branch(code) ==
    CASE code = 4 -> "ready"
      [] code \in {0, 1, 2, 3} -> "sleep"
      [] code > 4 -> "error"
      [] OTHER -> "sleep"

\* lines 590-606, 666-702: a poll that does not report statusCode 4
get_alldebrid_links_poll ==
    /\ pc = "ad_poll" /\ hist.polls < MaxPolls
    /\ LET log == Append(reqs, Req(AD, "magnet/status", "poll", <<loc.job>>))
           del == Append(log, Req(AD, "magnet/delete", "delete", <<loc.job>>))
       IN  \/ \E answer \in {"raise", "no_code"} :       \* None > 4 is a TypeError
                 Raise([loc EXCEPT !.status = answer], log, Polled(hist))
           \/ Return(List(<<>>), [loc EXCEPT !.status = "api_error"], log, Polled(hist))
           \/ \E code \in ADCodes \ {4}, deleted \in {"ok", "raise"} :
                 LET l == [loc EXCEPT !.status = ToString(code)] IN
                 IF ad_branch(code) = "sleep" THEN Step("ad_poll", l, log, result, Slept(Polled(hist), "processing"))
                 ELSE IF deleted = "raise" THEN Raise(l, del, Polled(hist))
                 ELSE Return(List(<<>>), l, del, Polled(hist))

\* lines 609-640: statusCode 4, the file tree and the selection
get_alldebrid_links_ready ==
    /\ pc = "ad_poll" /\ hist.polls < MaxPolls /\ ad_branch(4) = "ready"
    /\ LET log == Append(reqs, Req(AD, "magnet/status", "poll", <<loc.job>>)) IN
       \E n \in 0 .. MaxFiles, typed \in Choices :
        \E r \in {select_files_interactive(n, typed)} :
          LET l == [loc EXCEPT !.status = "4", !.nfiles = n]
          IN  IF n = 0 THEN Return(List(<<>>), l, log, Ready(hist))
              ELSE IF r.raised THEN Raise(l, log, Asked(n, Ready(hist)))
              ELSE IF r.sel = <<>>
                   THEN Return(List(<<>>), [l EXCEPT !.selected = r.sel], log, Asked(n, Ready(hist)))
              ELSE Step("ad_unlock",
                        [l EXCEPT !.selected = r.sel, !.links = <<>>,
                                  !.todo = [k \in DOMAIN r.sel |-> r.sel[k] + 1]],
                        log, result, Asked(n, Ready(hist)))

\* lines 655-658: whether the answer of link/unlock gives a URL
ad_unlocked(answer) == answer = "ok"

\* lines 646-664
get_alldebrid_links_unlock ==
    /\ pc = "ad_unlock"
    /\ LET file == Head(loc.todo)
           log == Append(reqs, Req(AD, "link/unlock", "unlock", <<"file", ToString(file)>>))
       IN  \E answer \in {"ok", "no_link", "fail", "raise"} :
              LET l == [loc EXCEPT !.todo = Tail(@),
                                   !.links = IF ad_unlocked(answer)
                                             THEN Append(@, file) ELSE @]
              IN  IF answer = "raise" THEN Raise(loc, log, hist)
                  ELSE IF l.todo = <<>> THEN Return(List(l.links), l, log, hist)
                  ELSE Step("ad_unlock", l, log, result, hist)

\* lines 704-709: MEGA folder
get_alldebrid_links_folder ==
    /\ pc = "call" /\ fn = "get_alldebrid_links"
    /\ ~is_magnet(url) /\ is_mega_folder(url)
    /\ \E x \in extract_mega_files_from_folder(url, tokens) :
          IF x.raised THEN Raise(loc, reqs \o x.reqs, hist)
          ELSE IF x.n = 0 THEN Return(List(<<>>), loc, reqs \o x.reqs, hist)
          ELSE Step("ad_folder", [loc EXCEPT !.nfiles = x.n, !.todo = Ids(x.n)],
                    reqs \o x.reqs, result, hist)

\* lines 714-740
get_alldebrid_links_folder_unlock ==
    /\ pc = "ad_folder"
    /\ LET link == Head(loc.todo)
           log == Append(reqs, Req(AD, "link/unlock", "unlock", FileLink(url, link)))
       IN  \E answer \in {"ok", "fail", "raise"}, typed \in Choices :
              LET l == [loc EXCEPT !.todo = Tail(@),
                                   !.links = IF answer = "ok" THEN Append(@, link) ELSE @]
              IN  \E r \in {select_files_interactive(Len(l.links), typed)} :
                  IF answer = "raise" THEN Raise(loc, log, hist)
                  ELSE IF l.todo # <<>> THEN Step("ad_folder", l, log, result, hist)
                  ELSE IF l.links = <<>> THEN Return(List(<<>>), l, log, hist)
                  ELSE IF r.raised THEN Raise(l, log, Asked(Len(l.links), hist))
                  ELSE Return(List([k \in DOMAIN r.sel |-> l.links[r.sel[k] + 1]]),
                              [l EXCEPT !.selected = r.sel], log, Asked(Len(l.links), hist))

\* lines 742-756: hoster link
get_alldebrid_links_hoster ==
    /\ pc = "call" /\ fn = "get_alldebrid_links"
    /\ ~is_magnet(url) /\ ~is_mega_folder(url)
    /\ LET log == Append(reqs, Req(AD, "link/unlock", "unlock", url)) IN
       \E answer \in {"ok", "fail", "raise"} :
          CASE answer = "raise" -> Raise(loc, log, hist)
            [] answer = "ok" -> Return(List(<<0>>), loc, log, hist)
            [] answer = "fail" -> Return(List(<<>>), loc, log, hist)

\* --------------------------------------------- get_premiumize_links (759-914)
PM == "Premiumize.me"
PMStatuses == {"running", "finished", "error", "waiting", "queued", "seeding", "unknown"}

\* The URLs of the files picked by the 0-based indexes sel among files.
Picked(files, sel) == [k \in DOMAIN sel |-> files[sel[k] + 1]]

\* Picked, without the files whose entry carries no link.
PickedLinked(files, sel, nolink) ==
    SetToSeq({files[sel[k] + 1] : k \in DOMAIN sel} \ nolink)

\* lines 764-775: transfer/create; raise_for_status, and data["id"] of a
\* rejection that carries no id, raise.
get_premiumize_links_magnet ==
    /\ pc = "call" /\ fn = "get_premiumize_links" /\ is_magnet(url)
    /\ LET log == Append(reqs, Req(PM, "transfer/create", "submit", url)) IN
       \E answer \in {"raise", "rejected", "created"} :
          IF answer = "created"
          THEN Step("pm_poll", [loc EXCEPT !.job = "pm1"], log, result, hist)
          ELSE Raise(loc, log, IF answer = "rejected" THEN Rejected(hist) ELSE hist)

\* lines 828-843: what the loop does with a transfer status and its progress
\* (percent); a running transfer below 100% only redraws the progress bar.
pm_branch(status, progress) ==
    IF status = "running" /\ progress < 100 THEN "sleep"
    ELSE CASE status = "finished" -> "break"
           [] status = "error" -> "return"
           [] OTHER -> "sleep"

\* lines 778-843: one transfer/list poll
get_premiumize_links_poll ==
    /\ pc = "pm_poll" /\ hist.polls < MaxPolls
    /\ LET log == Append(reqs, Req(PM, "transfer/list", "poll", <<loc.job>>)) IN
       \/ \E answer \in {"raise", "no_status"} :        \* transfer["status"]: KeyError
             Raise([loc EXCEPT !.status = answer], log, Polled(hist))
       \/ Return(List(<<>>), [loc EXCEPT !.status = "missing"], log, Polled(hist))
       \/ \E status \in PMStatuses, progress \in {0, 100} :
             LET l == [loc EXCEPT !.status = status, !.progress = progress] IN
             CASE pm_branch(status, progress) = "break" ->
                    Step("pm_folder", l, log, result, Ready(hist))
               [] pm_branch(status, progress) = "return" ->
                    Return(List(<<>>), l, log, Polled(hist))
               [] OTHER -> Step("pm_poll", l, log, result, Slept(Polled(hist), "processing"))

\* lines 845-869: folder/list of the finished transfer, and the selection
get_premiumize_links_folder ==
    /\ pc = "pm_folder"
    /\ LET log == Append(reqs, Req(PM, "folder/list", "list", <<loc.job>>)) IN
       \/ Raise(loc, log, hist)
       \/ \E n \in 0 .. MaxFiles, typed \in Choices :
             \E r \in {select_files_interactive(n, typed)} :
                LET l == [loc EXCEPT !.nfiles = n, !.selected = r.sel] IN
                IF n = 0 THEN Return(List(<<>>), l, log, hist)
                ELSE IF r.raised THEN Raise(l, log, Asked(n, hist))
                ELSE Return(List(Picked(Ids(n), r.sel)), l, log, Asked(n, hist))

\* lines 871-898, 913-914: anything that is no magnet goes to directdl
get_premiumize_links_hoster ==
    /\ pc = "call" /\ fn = "get_premiumize_links" /\ ~is_magnet(url)
    /\ LET log == Append(reqs, Req(PM, "transfer/directdl", "unlock", url)) IN
       \/ Raise(loc, log, hist)
       \/ Return(List(<<0>>), loc, log, hist)
       \/ Return(List(<<>>), loc, log, hist)
       \/ \E n \in 0 .. MaxFiles, typed \in Choices :         \* a container
             \E r \in {select_files_interactive(n, typed)} :
                LET l == [loc EXCEPT !.nfiles = n, !.selected = r.sel,
                                     !.todo = Picked(Ids(n), r.sel)] IN
                IF r.raised THEN Raise(l, log, Asked(n, hist))
                ELSE IF r.sel = <<>> THEN Return(List(<<>>), l, log, Asked(n, hist))
                ELSE Step("pm_unlock", l, log, result, Asked(n, hist))

\* lines 901-912
get_premiumize_links_unlock ==
    /\ pc = "pm_unlock"
    /\ LET file == Head(loc.todo)
           log == Append(reqs, Req(PM, "transfer/directdl", "unlock", <<"file", ToString(file)>>))
       IN  \E answer \in {"ok", "fail", "raise"} :
              LET l == [loc EXCEPT !.todo = Tail(@),
                                   !.links = IF answer = "ok" THEN Append(@, file) ELSE @]
              IN  IF answer = "raise" THEN Raise(loc, log, hist)
                  ELSE IF l.todo = <<>> THEN Return(List(l.links), l, log, hist)
                  ELSE Step("pm_unlock", l, log, result, hist)

\* ------------------------------------ get_premiumize_links_from_nzb (916-1074)
\* lines 924-958: the upload; every Exception is caught at line 1072
get_premiumize_links_from_nzb_create ==
    /\ pc = "call" /\ fn = "get_premiumize_links_from_nzb"
    /\ LET log == Append(reqs, Req(PM, "transfer/create", "submit", <<"nzb">>))
           lst == Append(log, Req(PM, "transfer/list", "list", <<"nzb">>))
       IN  \/ Return(List(<<>>), loc, reqs, hist)            \* open() fails
           \/ Return(List(<<>>), loc, log, hist)             \* raised
           \/ Return(List(<<>>), loc, log, Rejected(hist))   \* rejected
           \/ Return(List(<<>>), loc, lst, hist)             \* duplicate, not found
           \/ Step("pmn_poll", [loc EXCEPT !.job = "pm0"], lst, result, hist)
           \/ Step("pmn_poll", [loc EXCEPT !.job = "pm1"], log, result, hist)

\* lines 975-990: whether the loop goes on after this status
pmn_pending(status) == status \notin {"finished", "error"}

\* The poll asks for the first transfer of the account.
get_premiumize_links_from_nzb_poll_first_transfer ==
    /\ pc = "pmn_poll" /\ hist.polls < MaxPolls
    /\ LET log == Append(reqs, Req(PM, "transfer/list", "poll", <<"pm0">>)) IN
       \/ \E answer \in {"raise", "empty"} :     \* transfers[0] of [] is an IndexError
             Return(List(<<>>), [loc EXCEPT !.status = answer], log, Polled(hist))
       \/ \E status \in PMStatuses :
             LET l == [loc EXCEPT !.status = status] IN
             IF pmn_pending(status) THEN Step("pmn_poll", l, log, result, Slept(Polled(hist), "processing"))
             ELSE IF status = "finished" THEN Step("pmn_directdl", l, log, result, Ready(hist))
             ELSE Return(List(<<>>), l, log, Polled(hist))

\* lines 960-1003: one transfer/list poll
get_premiumize_links_from_nzb_poll ==
    /\ pc = "pmn_poll" /\ hist.polls < MaxPolls
    /\ LET log == Append(reqs, Req(PM, "transfer/list", "poll", <<loc.job>>)) IN
       \/ \E answer \in {"raise", "empty"} :     \* transfers[0] of [] is an IndexError
             Return(List(<<>>), [loc EXCEPT !.status = answer], log, Polled(hist))
       \/ \E status \in PMStatuses :
             LET l == [loc EXCEPT !.status = status] IN
             IF pmn_pending(status) THEN Step("pmn_poll", l, log, result, Slept(Polled(hist), "processing"))
             ELSE IF status = "finished" THEN Step("pmn_directdl", l, log, result, Ready(hist))
             ELSE Return(List(<<>>), l, log, Polled(hist))

\* lines 1005-1070: directdl of the finished transfer, else folder/list
get_premiumize_links_from_nzb_directdl ==
    /\ pc = "pmn_directdl"
    /\ LET log == Append(reqs, Req(PM, "transfer/directdl", "list", <<loc.job>>))
           fld == Append(log, Req(PM, "folder/list", "list", <<loc.job>>))
       IN  \/ Return(List(<<>>), loc, log, hist)     \* raised, or no folder id
           \/ Return(List(<<>>), loc, fld, hist)     \* raised, or not listed
           \/ \E n \in 0 .. MaxFiles, typed \in Choices, nolink \in SUBSET (1 .. MaxFiles) :
                 \E r \in {select_files_interactive(n, typed)} :
                    LET l == [loc EXCEPT !.nfiles = n, !.selected = r.sel] IN
                    IF n = 0 \/ r.raised THEN Return(List(<<>>), l, log, Asked(n, hist))
                    ELSE Return(List(PickedLinked(Ids(n), r.sel, nolink)), l, log, Asked(n, hist))
           \/ \E n \in 0 .. MaxFiles, typed \in Choices :
                 \E r \in {select_files_interactive(n, typed)} :
                    LET l == [loc EXCEPT !.nfiles = n, !.selected = r.sel] IN
                    IF n = 0 \/ r.raised THEN Return(List(<<>>), l, fld, Asked(n, hist))
                    ELSE Return(List(Picked(Ids(n), r.sel)), l, fld, Asked(n, hist))

\* ------------------------------------------------ get_torbox_links (1076-1350)
TB == "Torbox"

\* lines 1084-1104: createtorrent
get_torbox_links_magnet ==
    /\ pc = "call" /\ fn = "get_torbox_links" /\ is_magnet(url)
    /\ LET log == Append(reqs, Req(TB, "torrents/createtorrent", "submit", url)) IN
       \E answer \in {"raise", "http_rejected", "rejected", "created"} :
          CASE answer = "raise" -> Raise(loc, log, hist)
            [] answer = "http_rejected" -> Raise(loc, log, Rejected(hist))  \* raise_for_status
            [] answer = "rejected" -> Return(List(<<>>), loc, log, Rejected(hist))
            [] answer = "created" ->
                 Step("tb_mylist", [loc EXCEPT !.job = "tb1"], log, result, hist)

TBStates == {"downloading", "completed", "cached", "error", "none"}

\* lines 1106-1136: torrents/mylist and the selection; the state of the
\* torrent is not read.
get_torbox_links_mylist ==
    /\ pc = "tb_mylist"
    /\ LET log == Append(reqs, Req(TB, "torrents/mylist", "list", <<loc.job>>)) IN
       \/ Raise(loc, log, hist)
       \/ Return(List(<<>>), loc, log, hist)
       \/ \E n \in 0 .. MaxFiles, typed \in Choices, state \in TBStates :
             \E r \in {select_files_interactive(n, typed)} :
                LET l == [loc EXCEPT !.nfiles = n, !.selected = r.sel, !.status = state,
                                     !.todo = Picked(Ids(n), r.sel), !.links = <<>>] IN
                IF n = 0 THEN Return(List(<<>>), l, log, hist)
                ELSE IF r.raised THEN Raise(l, log, Asked(n, hist))
                ELSE IF r.sel = <<>> THEN Return(List(<<>>), l, log, Asked(n, hist))
                ELSE Step("tb_unlock", l, log, result, Asked(n, hist))

\* lines 1160-1174: what the answer of requestdl does to the file's loop
tb_requestdl(answer) ==
    CASE answer = "ok" -> "append"
      [] answer = "not_ready" -> "retry"
      [] OTHER -> "skip"

\* lines 1139-1184: one requestdl request of the selected file at hand
get_torbox_links_requestdl ==
    /\ pc = "tb_unlock" /\ hist.polls < MaxPolls
    /\ LET file == Head(loc.todo)
           log == Append(reqs, Req(TB, "torrents/requestdl", "unlock",
                                   <<loc.job, "file", ToString(file)>>))
       IN  \E answer \in {"ok", "not_ready", "fail", "raise"} :
              LET l == [loc EXCEPT !.todo = Tail(@),
                                   !.links = IF tb_requestdl(answer) = "append"
                                             THEN Append(@, file) ELSE @]
              IN  IF answer = "raise" THEN Raise(loc, log, hist)
                  ELSE IF tb_requestdl(answer) = "retry"
                       THEN Step("tb_unlock", loc, log, result, Slept(Polled(hist), "not_ready"))
                  ELSE IF l.todo = <<>> THEN Return(List(l.links), l, log, hist)
                  ELSE Step("tb_unlock", l, log, result, hist)

\* line 1249
tbw_pending == {"downloading", "processing", "waiting"}

\* The selection offered the files the job had before the refresh.
tbw_files_before_refresh(l, n, r, log, h) ==
    LET lf == [l EXCEPT !.nfiles = n, !.selected = r.sel,
                        !.todo = Picked(Ids(n), r.sel), !.links = <<>>] IN
    IF n = 0 THEN Return(List(<<>>), lf, log, h)
    ELSE IF r.raised THEN Raise(lf, log, Asked(l.nfiles, h))
    ELSE IF r.sel = <<>> THEN Return(List(<<>>), lf, log, Asked(l.nfiles, h))
    ELSE Step("tbw_unlock", lf, log, result, Asked(l.nfiles, h))

\* lines 1308-1323: the file list of the last job data, and the selection
tbw_files(l, n, r, log, h) ==
    LET lf == [l EXCEPT !.nfiles = n, !.selected = r.sel,
                        !.todo = Picked(Ids(n), r.sel), !.links = <<>>] IN
    IF n = 0 THEN Return(List(<<>>), lf, log, h)
    ELSE IF r.raised THEN Raise(lf, log, Asked(n, h))
    ELSE IF r.sel = <<>> THEN Return(List(<<>>), lf, log, Asked(n, h))
    ELSE Step("tbw_unlock", lf, log, result, Asked(n, h))

\* lines 1186-1252: checkcached, createwebdownload and the first mylist
get_torbox_links_webdl ==
    /\ pc = "call" /\ fn = "get_torbox_links" /\ ~is_magnet(url)
    /\ LET chk == Append(reqs, Req(TB, "webdl/checkcached", "check", url))
           crt == Append(chk, Req(TB, "webdl/createwebdownload", "submit", url))
           lst == Append(crt, Req(TB, "webdl/mylist", "poll", <<"tbw1">>))
           l == [loc EXCEPT !.job = "tbw1"]
       IN  \/ \E log \in {chk, crt} : Raise(loc, log, hist) \/ Return(List(<<>>), loc, log, hist)
           \/ Return(List(<<>>), loc, crt, Rejected(hist))
           \/ Raise(l, lst, hist)
           \/ Return(List(<<>>), l, lst, hist)
           \/ \E state \in TBStates \cup tbw_pending, n \in 0 .. MaxFiles, typed \in Choices :
                 \E r \in {select_files_interactive(n, typed)} :
                    IF state \in tbw_pending /\ n = 0
                    THEN Step("tbw_poll", [l EXCEPT !.status = state], lst, result,
                              Slept(hist, "processing"))
                    ELSE tbw_files([l EXCEPT !.status = state], n, r, lst,
                                   IF state \in {"completed", "cached"}
                                   THEN [hist EXCEPT !.ready = TRUE] ELSE hist)

\* lines 1254-1304: whether the loop goes on after the refreshed state
tbw_continue(state) == state \in tbw_pending

\* lines 1254-1323: one refresh of the job; a failed refresh is skipped
get_torbox_links_webdl_poll ==
    /\ pc = "tbw_poll" /\ hist.polls < MaxPolls
    /\ LET log == Append(reqs, Req(TB, "webdl/mylist", "poll", <<loc.job>>)) IN
       \/ \E answer \in {"raise", "http_error", "api_error"} :
             Step("tbw_poll", [loc EXCEPT !.status = answer], log, result,
                  Slept(Polled(hist), answer))
       \/ \E state \in TBStates \cup tbw_pending, n \in 0 .. MaxFiles, typed \in Choices :
             \E r \in {select_files_interactive(n, typed)} :
                IF tbw_continue(state)
                THEN Step("tbw_poll", [loc EXCEPT !.status = state], log, result,
                          Slept(Polled(hist), "processing"))
                ELSE tbw_files([loc EXCEPT !.status = state], n, r, log,
                               IF state \in {"completed", "cached"}
                               THEN Ready(hist) ELSE Polled(hist))

\* lines 1328-1350
get_torbox_links_webdl_requestdl ==
    /\ pc = "tbw_unlock"
    /\ LET file == Head(loc.todo)
           log == Append(reqs, Req(TB, "webdl/requestdl", "unlock",
                                   <<loc.job, "file", ToString(file)>>))
       IN  \E answer \in {"ok", "no_url", "fail", "raise"} :
              LET l == [loc EXCEPT !.todo = Tail(@),
                                   !.links = IF answer = "ok" THEN Append(@, file) ELSE @]
              IN  IF answer = "raise" THEN Raise(loc, log, hist)
                  ELSE IF l.todo = <<>> THEN Return(List(l.links), l, log, hist)
                  ELSE Step("tbw_unlock", l, log, result, hist)

\* --------------------------------------- get_torbox_links_from_nzb (1353-1529)
\* lines 1358-1387: the upload; every Exception is caught at line 1527
get_torbox_links_from_nzb_upload ==
    /\ pc = "call" /\ fn = "get_torbox_links_from_nzb"
    /\ LET log == Append(reqs, Req(TB, "usenet/createusenetdownload", "submit", <<"nzb">>)) IN
       \/ Return(List(<<>>), loc, reqs, hist)            \* open() fails
       \/ Return(List(<<>>), loc, log, hist)             \* raised, or no id
       \/ Return(List(<<>>), loc, log, Rejected(hist))   \* rejected
       \/ Step("tbn_poll", [loc EXCEPT !.job = "tbn1"], log, result, hist)

\* line 1391
tbn_pending == {"downloading", "repairing", "extracting", "processing", "queued", "waiting"}

TBNStates == {"finished", "cached", "error", "stalled", "downloading", "queued", "completed"}

\* lines 1421-1459: what the loop does with a state and a file list
tbn_branch(state, n) ==
    CASE state = "finished" \/ (state = "cached" /\ n > 0) -> "break"
      [] state = "error" \/ state = "stalled" -> "return"
      [] state \in tbn_pending -> "sleep"
      [] OTHER -> IF n > 0 THEN "break" ELSE "return"

\* The loop over the selected files is entered whatever the selection.
tbn_files_unchecked(l, n, r, log, h) ==
    LET lf == [l EXCEPT !.nfiles = n, !.selected = r.sel,
                        !.todo = Picked(Ids(n), r.sel), !.links = <<>>] IN
    IF n = 0 THEN Return(List(<<>>), lf, log, h)
    ELSE IF r.raised THEN Return(List(<<>>), lf, log, Asked(n, h))
    ELSE Step("tbn_unlock", lf, log, result, Asked(n, h))

\* lines 1470-1490: the file list after the loop, and the selection; a
\* ValueError of the selection is caught at line 1527.
tbn_files(l, n, r, log, h) ==
    LET lf == [l EXCEPT !.nfiles = n, !.selected = r.sel,
                        !.todo = Picked(Ids(n), r.sel), !.links = <<>>] IN
    IF n = 0 THEN Return(List(<<>>), lf, log, h)
    ELSE IF r.raised \/ r.sel = <<>> THEN Return(List(<<>>), lf, log, Asked(n, h))
    ELSE Step("tbn_unlock", lf, log, result, Asked(n, h))

\* lines 1395-1467: one usenet/mylist poll; a failed poll is retried
get_torbox_links_from_nzb_poll ==
    /\ pc = "tbn_poll" /\ hist.polls < MaxPolls
    /\ LET log == Append(reqs, Req(TB, "usenet/mylist", "poll", <<loc.job>>)) IN
       \/ \E answer \in {"raise", "http_error", "api_error"} :
             Step("tbn_poll", [loc EXCEPT !.status = answer], log, result,
                  Slept(Polled(hist), answer))
       \/ \E state \in TBNStates, n \in 0 .. MaxFiles, typed \in Choices :
             \E r \in {select_files_interactive(n, typed)} :
                LET l == [loc EXCEPT !.status = state, !.nfiles = n]
                    h == IF state \in {"finished", "cached"} THEN Ready(hist) ELSE Polled(hist)
                IN  CASE tbn_branch(state, n) = "break" -> tbn_files(l, n, r, log, h)
                      [] tbn_branch(state, n) = "return" -> Return(List(<<>>), l, log, h)
                      [] OTHER -> Step("tbn_poll", l, log, result, Slept(h, "processing"))

\* lines 1502-1523: what one usenet/requestdl answer adds; an Exception is
\* caught per file.
tbn_requestdl(answer) == answer = "ok"

\* lines 1496-1525
get_torbox_links_from_nzb_requestdl ==
    /\ pc = "tbn_unlock"
    /\ LET file == Head(loc.todo)
           log == Append(reqs, Req(TB, "usenet/requestdl", "unlock",
                                   <<loc.job, "file", ToString(file)>>))
       IN  \E answer \in {"ok", "no_url", "fail", "raise"} :
              LET l == [loc EXCEPT !.todo = Tail(@),
                                   !.links = IF tbn_requestdl(answer) THEN Append(@, file) ELSE @]
              IN  IF l.todo = <<>> THEN Return(List(l.links), l, log, hist)
                  ELSE Step("tbn_unlock", l, log, result, hist)

\* -------------------------------------------- get_debrid_link_links (1531-1723)
DL == "Debrid-Link"
DLPercents == {0, 50, 100}

\* The "status" of a torrent of seedbox/list; the function does not read it.
DLStates == {"downloading", "downloaded"}

\* lines 1539-1556: seedbox/add
get_debrid_link_links_magnet ==
    /\ pc = "call" /\ fn = "get_debrid_link_links" /\ is_magnet(url)
    /\ LET log == Append(reqs, Req(DL, "seedbox/add", "submit", url)) IN
       \E answer \in {"raise", "rejected", "created"} :
          CASE answer = "raise" -> Raise(loc, log, hist)
            [] answer = "rejected" -> Return(List(<<>>), loc, log, Rejected(hist))
            [] answer = "created" ->
                 Step("dl_poll", [loc EXCEPT !.job = "dl1"], log, result, hist)

\* line 1584
dl_complete(percent) == percent = 100

\* lines 1560-1631: one seedbox/list poll
get_debrid_link_links_poll ==
    /\ pc = "dl_poll" /\ hist.polls < MaxPolls
    /\ LET log == Append(reqs, Req(DL, "seedbox/list", "poll", <<loc.job>>)) IN
       \/ Raise([loc EXCEPT !.status = "raise"], log, Polled(hist))
       \/ Step("dl_poll", [loc EXCEPT !.status = "api_error"], log, result,
               Slept(Polled(hist), "api_error"))
       \/ Return(List(<<>>), [loc EXCEPT !.status = "missing"], log, Polled(hist))
       \/ \E percent \in DLPercents, state \in DLStates, n \in 0 .. MaxFiles,
             typed \in Choices, nolink \in SUBSET (1 .. MaxFiles) :
             \E r \in {select_files_interactive(n, typed)} :
                LET l == [loc EXCEPT !.status = state, !.progress = percent]
                    lf == [l EXCEPT !.nfiles = n, !.selected = r.sel]
                IN  IF ~dl_complete(percent)
                    THEN Step("dl_poll", l, log, result, Slept(Polled(hist), "processing"))
                    ELSE IF n = 0 THEN Return(List(<<>>), lf, log, Ready(hist))
                    ELSE IF r.raised THEN Raise(lf, log, Asked(n, Ready(hist)))
                    ELSE Return(List(PickedLinked(Ids(n), r.sel, nolink)), lf, log,
                                Asked(n, Ready(hist)))

\* lines 1634-1654: MEGA folder; the selection comes before the unlocking
get_debrid_link_links_folder ==
    /\ pc = "call" /\ fn = "get_debrid_link_links"
    /\ ~is_magnet(url) /\ is_mega_folder(url)
    /\ \E x \in extract_mega_files_from_folder(url, tokens), typed \in Choices :
          \E r \in {select_files_interactive(x.n, typed)} :
             LET l == [loc EXCEPT !.nfiles = x.n, !.selected = r.sel,
                                  !.todo = Picked(Ids(x.n), r.sel)] IN
             IF x.raised THEN Raise(loc, reqs \o x.reqs, hist)
             ELSE IF x.n = 0 THEN Return(List(<<>>), loc, reqs \o x.reqs, hist)
             ELSE IF r.raised THEN Raise(l, reqs \o x.reqs, Asked(x.n, hist))
             ELSE IF r.sel = <<>> THEN Return(List(<<>>), l, reqs \o x.reqs, Asked(x.n, hist))
             ELSE Step("dl_folder", l, reqs \o x.reqs, result, Asked(x.n, hist))

\* lines 1660-1692
get_debrid_link_links_folder_unlock ==
    /\ pc = "dl_folder"
    /\ LET link == Head(loc.todo)
           log == Append(reqs, Req(DL, "downloader/add", "unlock", FileLink(url, link)))
       IN  \E answer \in {"ok", "no_link", "fail", "raise"} :
              LET l == [loc EXCEPT !.todo = Tail(@),
                                   !.links = IF answer = "ok" THEN Append(@, link) ELSE @]
              IN  IF answer = "raise" THEN Raise(loc, log, hist)
                  ELSE IF l.todo = <<>> THEN Return(List(l.links), l, log, hist)
                  ELSE Step("dl_folder", l, log, result, hist)

\* lines 1695-1723: hoster link
get_debrid_link_links_hoster ==
    /\ pc = "call" /\ fn = "get_debrid_link_links"
    /\ ~is_magnet(url) /\ ~is_mega_folder(url)
    /\ LET log == Append(reqs, Req(DL, "downloader/add", "unlock", url)) IN
       \E answer \in {"ok", "no_link", "fail", "raise"} :
          CASE answer = "raise" -> Raise(loc, log, hist)
            [] answer = "ok" -> Return(List(<<0>>), loc, log, hist)
            [] OTHER -> Return(List(<<>>), loc, log, hist)

\* ------------------------------------------------- cache probes (1804-2203)
\* One way a probe can go: the pair it returns, the requests it issued, and
\* the jobs it created on the provider account.
Out(support, cached, log, jobs) ==
    [support |-> support, cached |-> cached, reqs |-> log, created |-> jobs,
     failed |-> FALSE]

\* The way a probe goes when its last request raises (no connection, a
\* timeout, a body that is no JSON or lacks a key): what the except clause
\* that catches the exception returns.
Failed(support, cached, log, jobs) ==
    [support |-> support, cached |-> cached, reqs |-> log, created |-> jobs,
     failed |-> TRUE]

Job(svc, id) == [svc |-> svc, job |-> id]

\* lines 2015-2019: re.search(r'btih:([a-fA-F0-9]+)', magnet_link)
extract_info_hash(u) ==
    \E i \in DOMAIN u : i < Len(u) /\ u[i] = "btih:" /\ u[i + 1] \in {"abcd"}

\* The first file link of a folder, or nothing (lines 1860-1866, 1953-1958):
\* the outcomes of extract_mega_files_from_folder with "raised" caught.
first_link(u, toks) ==
    {[found |-> (~x.raised /\ x.n > 0), reqs |-> x.reqs] :
        x \in extract_mega_files_from_folder(u, toks)}

\* The delete request is sent whether or not there is an id.
check_real_debrid_cache_finally_unguarded(log, torrent_id) ==
    Append(log, Req(RD, "torrents/delete", "delete", <<"rd1">>))

\* lines 1849-1854: finally, delete the torrent when there is an id
check_real_debrid_cache_finally(log, torrent_id) ==
    IF torrent_id # ""
    THEN Append(log, Req(RD, "torrents/delete", "delete", <<torrent_id>>))
    ELSE log

\* lines 1872-1886
check_real_debrid_cache_hoster(u) ==
    LET log == <<Req(RD, "unrestrict/link", "unlock", u)>> IN
    { Failed("not_supported", "None", log, {}),          \* lines 1885-1886
      Out("not_supported", "None", log, {}),
      Out("supported", "False", log, {}),
      Out("supported", "True", log, {}) }

\* lines 1812-1854
check_real_debrid_cache_magnet(u) ==
    LET add == <<Req(RD, "torrents/addMagnet", "submit", u)>>
        info == Req(RD, "torrents/info", "poll", <<"rd1">>)
        sel == Req(RD, "torrents/selectFiles", "select", <<"rd1">>)
        job == {Job(RD, "rd1")}
        Created(support, cached, log) ==
            Out(support, cached, check_real_debrid_cache_finally(log, "rd1"), job)
        none == check_real_debrid_cache_finally(add, "")  \* no id: nothing to delete
    IN  { Failed("not_supported", "None", none, {}),      \* lines 1846-1847
          Out("not_supported", "None", none, {}),         \* hoster_unsupported
          Out("supported", "False", none, {}) }           \* any other answer but 201
        \cup { Failed("not_supported", "None",            \* a later request raises
                      check_real_debrid_cache_finally(log, "rd1"), job) :
                 log \in {add \o <<info>>, add \o <<info, sel>>, add \o <<info, sel, info>>} }
        \cup { Created("supported", cached, log) :
                 cached \in {"True", "False"},
                 log \in {add \o <<info>>, add \o <<info, sel, info>>} }

\* lines 1804-1886
check_real_debrid_cache(u, toks) ==
    IF is_magnet(u) THEN check_real_debrid_cache_magnet(u)
    ELSE IF is_mega_folder(u)
    THEN UNION { IF f.found
                 THEN { [o EXCEPT !.reqs = f.reqs \o @] :
                          o \in check_real_debrid_cache_hoster(FileLink(u, 1)) }
                 ELSE { Out("not_supported", "None", f.reqs, {}) } :
                 f \in first_link(u, toks) }
    ELSE check_real_debrid_cache_hoster(u)

\* The probe returns its result without the cleanup request.
check_alldebrid_cache_no_cleanup(log, magnet_id) == log

\* lines 1927-1935: the cleanup after the status request
check_alldebrid_cache_cleanup(log, magnet_id) ==
    Append(log, Req(AD, "magnet/delete", "delete", <<magnet_id>>))

\* lines 1938-1946
check_alldebrid_cache_status(code) ==
    IF code = 4 THEN <<"supported", "True">>
    ELSE IF code \in {0, 1, 2, 3} THEN <<"supported", "False">>
    ELSE <<"not_supported", "None">>

\* lines 1895-1946, 1976-1977
check_alldebrid_cache_magnet(u) ==
    LET up == <<Req(AD, "magnet/upload", "submit", u)>>
        st == up \o <<Req(AD, "magnet/status", "poll", <<"ad1">>)>>
        job == {Job(AD, "ad1")}
    IN  { Failed("unknown", "None", up, {}),              \* lines 1976-1977
          Out("unknown", "None", up, {}),                 \* no magnets in the answer
          Out("not_supported", "None", up, {}),
          Failed("unknown", "None", st, job) }            \* status raises, or odd shape
        \cup { Out(check_alldebrid_cache_status(code)[1], check_alldebrid_cache_status(code)[2],
                   check_alldebrid_cache_cleanup(st, "ad1"), job) : code \in ADCodes }

\* lines 1962-1977
check_alldebrid_cache_hoster(u) ==
    LET log == <<Req(AD, "link/unlock", "unlock", u)>> IN
    { Failed("unknown", "None", log, {}),                \* lines 1976-1977
      Out("not_supported", "None", log, {}),
      Out("supported", "True", log, {}) }

\* lines 1889-1977
check_alldebrid_cache(u, toks) ==
    IF is_magnet(u) THEN check_alldebrid_cache_magnet(u)
    ELSE IF is_mega_folder(u)
    THEN UNION { IF f.found
                 THEN { [o EXCEPT !.reqs = f.reqs \o @] :
                          o \in check_alldebrid_cache_hoster(FileLink(u, 1)) }
                 ELSE { Out("not_supported", "None", f.reqs, {}) } :
                 f \in first_link(u, toks) }
    ELSE check_alldebrid_cache_hoster(u)

\* lines 1980-2012
check_premiumize_cache(u) ==
    IF is_magnet(u)
    THEN LET log == <<Req(PM, "cache/check", "check", u)>> IN
         { Failed("not_supported", "None", log, {}),     \* lines 2010-2012
           Out("supported", "True", log, {}),
           Out("supported", "False", log, {}) }
    ELSE LET log == <<Req(PM, "transfer/directdl", "unlock", u)>> IN
         { Failed("not_supported", "None", log, {}),     \* lines 2010-2012
           Out("not_supported", "None", log, {}),
           Out("supported", "True", log, {}) }

\* lines 2022-2126
check_torbox_cache(u) ==
    IF is_magnet(u)
    THEN IF ~extract_info_hash(u) THEN { Out("not_supported", "None", <<>>, {}) }
         ELSE LET log == <<Req(TB, "torrents/checkcached", "check", u)>> IN
              { Failed("not_supported", "None", log, {}),    \* lines 2124-2126
                Out("not_supported", "None", log, {}),
                Out("supported", "True", log, {}),
                Out("supported", "False", log, {}) }
    ELSE LET log == <<Req(TB, "webdl/checkcached", "check", u)>>
             hosters == Append(log, Req(TB, "webdl/hosters", "list", <<>>))
         IN  { Failed("not_supported", "None", log, {}),     \* lines 2124-2126
               Out("not_supported", "None", log, {}),
               Out("supported", "True", log, {}),
               Failed("unknown", "False", hosters, {}),      \* lines 2117-2118
               Out("unknown", "False", hosters, {}),
               Out("supported", "False", hosters, {}),
               Out("not_supported", "None", hosters, {}) }

\* lines 2171-2181: the cleanup, when the add answer carried an id
check_debrid_link_cache_cleanup(log, torrent_id) ==
    IF torrent_id # ""
    THEN Append(log, Req(DL, "seedbox/remove", "delete", <<torrent_id>>))
    ELSE log

\* lines 2128-2203
check_debrid_link_cache(u) ==
    IF is_magnet(u)
    THEN LET add == <<Req(DL, "seedbox/add", "submit", u)>>
             lst == Append(add, Req(DL, "seedbox/list", "poll", <<"dl1">>))
             job == {Job(DL, "dl1")}
         IN  { Failed("unknown", "None", add, {}),           \* lines 2201-2203
               Out("not_supported", "None", add, {}),
               Failed("unknown", "None", lst, job) }      \* the list request raises
             \cup { Out("supported", cached, check_debrid_link_cache_cleanup(log, "dl1"), job) :
                      cached \in {"True", "False"}, log \in {add, lst} }
    ELSE LET log == <<Req(DL, "downloader/add", "unlock", u)>> IN
         { Failed("unknown", "None", log, {}),            \* lines 2201-2203
           Out("not_supported", "None", log, {}),
           Out("supported", "True", log, {}) }

\* ------------------------------------------------ find_best_debrid (2205-2277)
\* A ranker that lists a provider only when its probe did not say NotSupported.
Probed_unless_not_supported(name, o, nextpc) ==
    Step(nextpc,
         [loc EXCEPT !.services = IF o.support = "not_supported" THEN @
                                  ELSE Append(@, [name |-> name, support |-> o.support,
                                                  cached |-> o.cached])],
         reqs \o o.reqs, result,
         [hist EXCEPT !.created = @ \cup o.created,
                      !.probe_failed = IF o.failed THEN @ \cup {name} ELSE @])

\* lines 2213-2215 (and the like): services.append((name, support, cached))
Probed(name, o, nextpc) ==
    Step(nextpc,
         [loc EXCEPT !.services = Append(@, [name |-> name, support |-> o.support,
                                             cached |-> o.cached])],
         reqs \o o.reqs, result,
         [hist EXCEPT !.created = @ \cup o.created,
                      !.probe_failed = IF o.failed THEN @ \cup {name} ELSE @])

Skipped(nextpc) == Step(nextpc, loc, reqs, result, hist)

\* lines 2211-2215
find_best_debrid_real_debrid ==
    /\ pc = "fb_rd"
    /\ IF RD \in tokens
       THEN \E o \in check_real_debrid_cache(url, tokens) : Probed(RD, o, "fb_ad")
       ELSE Skipped("fb_ad")

\* lines 2217-2221
find_best_debrid_alldebrid ==
    /\ pc = "fb_ad"
    /\ IF AD \in tokens
       THEN \E o \in check_alldebrid_cache(url, tokens) : Probed(AD, o, "fb_pm")
       ELSE Skipped("fb_pm")

\* lines 2223-2227
find_best_debrid_premiumize ==
    /\ pc = "fb_pm"
    /\ IF PM \in tokens
       THEN \E o \in check_premiumize_cache(url) : Probed(PM, o, "fb_tb")
       ELSE Skipped("fb_tb")

\* lines 2229-2233
find_best_debrid_torbox ==
    /\ pc = "fb_tb"
    /\ IF TB \in tokens
       THEN \E o \in check_torbox_cache(url) : Probed(TB, o, "fb_dl")
       ELSE Skipped("fb_dl")

\* lines 2235-2239
find_best_debrid_debrid_link ==
    /\ pc = "fb_dl"
    /\ IF DL \in tokens
       THEN \E o \in check_debrid_link_cache(url) : Probed(DL, o, "fb_menu")
       ELSE Skipped("fb_menu")

\* lines 2266-2277: the function of the provider named
Resolver == [p \in Providers |->
              CASE p = RD -> "get_real_debrid_links"
                [] p = AD -> "get_alldebrid_links"
                [] p = PM -> "get_premiumize_links"
                [] p = TB -> "get_torbox_links"
                [] p = DL -> "get_debrid_link_links"]

\* What the operator types at "Choose a service" (not stripped).
ServiceChoices == { <<>>, <<"1">>, <<"2">>, <<"3">>, <<"9">>, <<"x">>, <<" ", "1">>, <<"^2">> }

\* The history after the operator typed a line at "Choose a service".
Chose(h, choice) == [h EXCEPT !.choice = choice]

\* lines 2241-2277: the menu and the hand-off to the resolution function
find_best_debrid_choice ==
    /\ pc = "fb_menu"
    /\ IF loc.services = <<>> THEN Return(List(<<>>), loc, reqs, hist)
       ELSE \E choice \in ServiceChoices :
               IF ~isdigit(choice) THEN Return(List(<<>>), loc, reqs, Chose(hist, choice))
               ELSE \E idx \in {int(choice)} :
                       IF ~idx.ok THEN Raise(loc, reqs, Chose(hist, choice))
                       ELSE IF idx.v < 1 \/ idx.v > Len(loc.services)
                       THEN Return(List(<<>>), loc, reqs, Chose(hist, choice))
                       ELSE /\ fn' = Resolver[loc.services[idx.v].name]
                            /\ pc' = "call"
                            /\ loc' = [NoLocals EXCEPT !.services = loc.services]
                            /\ hist' = Chose(hist, choice)
                            /\ UNCHANGED <<tokens, url, reqs, result, parse, torrent>>


\* ------------------------------------------------------------------ main
\* lines 2288-2464: the debrid menu; the operator picks a configured
\* provider and pastes a URL.
Owner == [get_real_debrid_links |-> RD, get_alldebrid_links |-> AD,
          get_premiumize_links |-> PM, get_premiumize_links_from_nzb |-> PM,
          get_torbox_links |-> TB, get_torbox_links_from_nzb |-> TB,
          get_debrid_link_links |-> DL]

\* The functions that take the path of an .nzb file (lines 2452-2458).
NzbFunctions == {"get_premiumize_links_from_nzb", "get_torbox_links_from_nzb"}

\* line 2294: whether "3. Use Debrid Service" is printed
debrid_entry(toks) == toks \cap {RD, AD, PM, TB} # {}

\* The providers among order that have a token, in that order.
RECURSIVE configured(_, _)
configured(order, toks) ==
    IF order = <<>> THEN <<>>
    ELSE (IF Head(order) \in toks THEN <<Head(order)>> ELSE <<>>)
         \o configured(Tail(order), toks)

\* lines 2396-2421 (and 2342-2366 for a .torrent file): the service menu
service_menu(toks) == configured(<<RD, AD, PM, TB, DL>>, toks)

\* The history after main has printed its menus.
Shown(h) == [h EXCEPT !.debrid_entry = debrid_entry(tokens),
                      !.menu = service_menu(tokens)]

main ==
    /\ pc = "main"
    /\ \E f \in DOMAIN Owner, u \in URLS \cup {<<>>} :
          /\ \E k \in DOMAIN service_menu(tokens) : service_menu(tokens)[k] = Owner[f]
          /\ (f \in NzbFunctions) = (u = <<>>)
          /\ fn' = f /\ url' = u /\ pc' = "call"
          /\ hist' = Shown(hist)
          /\ UNCHANGED <<tokens, loc, reqs, result, parse, torrent>>

\* lines 2473-2475: len(urls) of None is a TypeError
main_download_phase ==
    /\ pc = "returned"
    /\ IF result.none THEN Raise(NoLocals, reqs, hist)
       ELSE IF result.urls = <<>> THEN Step("exited", NoLocals, reqs, result, hist)
       ELSE Step("download", [NoLocals EXCEPT !.todo = result.urls], reqs, result, hist)

\* The history after a download that did or did not fail.
Downloaded(h, answer) == IF answer = "fail" THEN [h EXCEPT !.failed = @ + 1] ELSE h

\* The loop of the download phase ends at the first download that fails.
download_file_until_failure ==
    /\ pc = "download"
    /\ LET log == Append(reqs, Req("direct", "get", "download", <<"url", ToString(Head(loc.todo))>>))
           l == [loc EXCEPT !.todo = Tail(@)]
       IN  \E answer \in {"ok", "fail"} :
              Step(IF l.todo = <<>> \/ answer = "fail" THEN "exited" ELSE "download",
                   l, log, result, Downloaded(hist, answer))

\* lines 267-344, 2475-2477: download_file catches every Exception
download_file ==
    /\ pc = "download"
    /\ LET log == Append(reqs, Req("direct", "get", "download", <<"url", ToString(Head(loc.todo))>>))
           l == [loc EXCEPT !.todo = Tail(@)]
       IN  \E answer \in {"ok", "fail"} :
              Step(IF l.todo = <<>> THEN "exited" ELSE "download", l, log, result,
                   Downloaded(hist, answer))

\* Ctrl+C while a resolution waits on a request or sleeps: KeyboardInterrupt
\* is no Exception, and main's caller exits (lines 2481-2485).
Running == {"rd_poll", "rd_unlock", "rd_folder", "ad_poll", "ad_unlock", "ad_folder",
            "pm_poll", "pm_folder", "pm_unlock", "pmn_poll", "pmn_directdl",
            "tb_mylist", "tb_unlock", "tbw_poll", "tbw_unlock", "tbn_poll", "tbn_unlock",
            "dl_poll", "dl_folder"}

\* lines 992-994, 1461-1463: the loops that catch KeyboardInterrupt and return []
CatchesInterrupt == {"pmn_poll", "tbn_poll"}

\* The interrupt is swallowed like a network error and the loop goes on.
interrupt_swallowed(p) == p

\* Where an interrupt raised at position p takes the program: the handler of
\* the loop returns [], any other position unwinds to line 2483.
interrupt_handled(p) == IF p \in CatchesInterrupt THEN "returned" ELSE "aborted"

KeyboardInterrupt ==
    /\ pc \in Running /\ ~hist.interrupted
    /\ Step(interrupt_handled(pc), loc, reqs,
            IF pc \in CatchesInterrupt THEN List(<<>>) ELSE result,
            [hist EXCEPT !.interrupted = TRUE, !.reqs_at_int = Len(reqs)])

\* The token configurations explored: each provider alone, and all of them.
Configs == {{p} : p \in Providers} \cup {Providers}

Init ==
    /\ tokens \in Configs
    /\ fn = "" /\ url = <<>> /\ pc = "main"
    /\ loc = NoLocals /\ reqs = <<>> /\ result = List(<<>>) /\ hist = NoHist
    /\ parse = NoParse /\ torrent = NoTorrents

Next ==
    \/ main
    \/ get_real_debrid_links_magnet
    \/ get_real_debrid_links_waiting
    \/ get_real_debrid_links_downloaded
    \/ get_real_debrid_links_unrestrict
    \/ get_real_debrid_links_other
    \/ get_real_debrid_links_poll_error
    \/ get_real_debrid_links_folder
    \/ get_real_debrid_links_folder_unlock
    \/ get_real_debrid_links_hoster
    \/ get_alldebrid_links_magnet
    \/ get_alldebrid_links_poll
    \/ get_alldebrid_links_ready
    \/ get_alldebrid_links_unlock
    \/ get_alldebrid_links_folder
    \/ get_alldebrid_links_folder_unlock
    \/ get_alldebrid_links_hoster
    \/ get_premiumize_links_magnet
    \/ get_premiumize_links_poll
    \/ get_premiumize_links_folder
    \/ get_premiumize_links_hoster
    \/ get_premiumize_links_unlock
    \/ get_premiumize_links_from_nzb_create
    \/ get_premiumize_links_from_nzb_poll
    \/ get_premiumize_links_from_nzb_directdl
    \/ get_torbox_links_magnet
    \/ get_torbox_links_mylist
    \/ get_torbox_links_requestdl
    \/ get_torbox_links_webdl
    \/ get_torbox_links_webdl_poll
    \/ get_torbox_links_webdl_requestdl
    \/ get_torbox_links_from_nzb_upload
    \/ get_torbox_links_from_nzb_poll
    \/ get_torbox_links_from_nzb_requestdl
    \/ get_debrid_link_links_magnet
    \/ get_debrid_link_links_poll
    \/ get_debrid_link_links_folder
    \/ get_debrid_link_links_folder_unlock
    \/ get_debrid_link_links_hoster
    \/ main_download_phase
    \/ download_file
    \/ KeyboardInterrupt

Spec == Init /\ [][Next]_vars

\* lines 2430-2433, 2463-2464: "Find best option" is offered when more than
\* one provider is configured.
main_find_best ==
    /\ pc = "main" /\ Cardinality(tokens) > 1
    /\ \E u \in URLS :
          /\ fn' = "find_best_debrid" /\ url' = u /\ pc' = "fb_rd"
          /\ hist' = Shown(hist)
          /\ UNCHANGED <<tokens, loc, reqs, result, parse, torrent>>

\* The token configurations explored for the ranker: every set of two or more providers.
RankConfigs == {c \in SUBSET Providers : Cardinality(c) >= 2}

InitRank ==
    /\ tokens \in RankConfigs
    /\ fn = "" /\ url = <<>> /\ pc = "main"
    /\ loc = NoLocals /\ reqs = <<>> /\ result = List(<<>>) /\ hist = NoHist
    /\ parse = NoParse /\ torrent = NoTorrents

NextRank ==
    \/ main_find_best
    \/ find_best_debrid_real_debrid
    \/ find_best_debrid_alldebrid
    \/ find_best_debrid_premiumize
    \/ find_best_debrid_torbox
    \/ find_best_debrid_debrid_link
    \/ find_best_debrid_choice

SpecRank == InitRank /\ [][NextRank]_vars

\* ------------------------------------ the functions on any resource string
\* Strings the resolution and probe functions can be called with, beyond
\* those main passes on: a magnet with blanks around it, and magnets that
\* carry the folder marker, without and with the file marker.
U_magnet_spaced == <<" ", "magnet:", "btih:", "abcd", " ">>
U_magnet_folder == <<"magnet:", "btih:", "abcd", "mega.nz/folder/", "id", "#", "key">>
U_magnet_folder_file == <<" ", "magnet:", "btih:", "abcd", "mega.nz/folder/", "id", "#", "key",
                          "/file/", "h">>
KindURLS == URLS \cup {U_magnet_spaced, U_magnet_folder, U_magnet_folder_file}

\* The functions that take a resource string (lines 2266-2277, 2463-2464).
KindFunctions == {Resolver[p] : p \in Providers} \cup {"find_best_debrid"}

\* A call of one of these functions: the resolution functions with one
\* provider or all of them configured, the ranker with two or all.
InitKinds ==
    /\ fn \in KindFunctions
    /\ url \in KindURLS
    /\ tokens \in IF fn = "find_best_debrid"
                  THEN {c \in RankConfigs : Cardinality(c) \in {2, Cardinality(Providers)}}
                  ELSE Configs
    /\ pc = IF fn = "find_best_debrid" THEN "fb_rd" ELSE "call"
    /\ loc = NoLocals /\ reqs = <<>> /\ result = List(<<>>) /\ hist = NoHist
    /\ parse = NoParse /\ torrent = NoTorrents

\* The first step of each resolution function, which acts on the kind of the
\* string, and the five probes of the ranker.
NextKinds ==
    \/ get_real_debrid_links_magnet
    \/ get_real_debrid_links_folder
    \/ get_real_debrid_links_hoster
    \/ get_alldebrid_links_magnet
    \/ get_alldebrid_links_folder
    \/ get_alldebrid_links_hoster
    \/ get_premiumize_links_magnet
    \/ get_premiumize_links_hoster
    \/ get_torbox_links_magnet
    \/ get_torbox_links_webdl
    \/ get_debrid_link_links_magnet
    \/ get_debrid_link_links_folder
    \/ get_debrid_link_links_hoster
    \/ find_best_debrid_real_debrid
    \/ find_best_debrid_alldebrid
    \/ find_best_debrid_premiumize
    \/ find_best_debrid_torbox
    \/ find_best_debrid_debrid_link

SpecKinds == InitKinds /\ [][NextKinds]_vars

\* ------------------------------------------- the selection parser on its own
\* A token of a selection expression and what it denotes: a single index
\* (lo = hi), a range lo-hi, or nothing ("other").
Single(text, n) == [text |-> text, kind |-> "single", lo |-> n, hi |-> n]
Range(text, a, b) == [text |-> text, kind |-> "range", lo |-> a, hi |-> b]
Other(text) == [text |-> text, kind |-> "other", lo |-> 0, hi |-> 0]

Tokens ==
    { Single(<<"1">>, 1), Single(<<"2">>, 2), Single(<<"3">>, 3), Single(<<"0">>, 0),
      Single(<<"0", "2">>, 2), Single(<<" ", "2", " ">>, 2),
      Single(<<"1", "0">>, 10), Single(<<"9", "9">>, 99),
      Range(<<"1", "-", "2">>, 1, 2), Range(<<"2", "-", "3">>, 2, 3),
      Range(<<"2", "-", "2">>, 2, 2), Range(<<" ", "1", " ", "-", " ", "3">>, 1, 3),
      Range(<<"4", "-", "6">>, 4, 6), Range(<<"0", "-", "2">>, 0, 2),
      Range(<<"2", "-", "1">>, 2, 1), Range(<<"3", "-", "1">>, 3, 1),
      Range(<<"5", "-", "2">>, 5, 2),
      Other(<<>>), Other(<<" ">>), Other(<<"x">>), Other(<<"a", "l", "l">>),
      Other(<<"A", "l", "L">>), Other(<<"-">>), Other(<<"-", "1">>), Other(<<"1", "-">>),
      Other(<<"1", "-", "2", "-", "3">>), Other(<<"1", "-", "x">>), Other(<<"^2">>) }

\* The expressions of the examples of spec.md 4.5: "2,4-6,99" and "5-2".
Examples ==
    { << Single(<<"2">>, 2), Range(<<"4", "-", "6">>, 4, 6), Single(<<"9", "9">>, 99) >>,
      << Range(<<"5", "-", "2">>, 5, 2) >> }

\* The list lengths (max_index) tried.
MaxIndexes == {1, 2, 3, 6, 10}

\* The sequences of at most n tokens.
RECURSIVE Expressions(_)
Expressions(n) ==
    IF n = 0 THEN {<<>>}
    ELSE Expressions(n - 1)
         \cup {Append(e, t) : e \in {x \in Expressions(n - 1) : Len(x) = n - 1}, t \in Tokens}

\* ",".join(text of the tokens)
RECURSIVE Join(_)
Join(parts) ==
    IF parts = <<>> THEN <<>>
    ELSE IF Len(parts) = 1 THEN parts[1].text
    ELSE parts[1].text \o <<",">> \o Join(Tail(parts))

\* lines 368-383: one call of parse_selection(input, max_index)
call_parse_selection ==
    /\ parse.at = "input"
    /\ \E r \in {parse_selection(parse.input, parse.max_index)} :
          parse' = [parse EXCEPT !.at = "parse_selection", !.raised = r.raised, !.out = r.sel]
    /\ UNCHANGED <<tokens, fn, url, pc, loc, reqs, result, hist, torrent>>

\* lines 200-237: one call of select_files_interactive on a list of
\* max_index files, the operator typing input
call_select_files_interactive ==
    /\ parse.at = "input"
    /\ \E r \in {select_files_interactive(parse.max_index, parse.input)} :
          parse' = [parse EXCEPT !.at = "select_files_interactive",
                                 !.raised = r.raised, !.out = r.sel]
    /\ UNCHANGED <<tokens, fn, url, pc, loc, reqs, result, hist, torrent>>

InitParse ==
    /\ tokens = {} /\ fn = "" /\ url = <<>> /\ pc = "parse"
    /\ loc = NoLocals /\ reqs = <<>> /\ result = List(<<>>) /\ hist = NoHist
    /\ torrent = NoTorrents
    /\ \E parts \in (Expressions(MaxTokens) \ {<<>>}) \cup Examples, m \in MaxIndexes :
          parse = [NoParse EXCEPT !.parts = parts, !.input = Join(parts),
                                  !.max_index = m, !.at = "input"]

NextParse ==
    \/ call_parse_selection
    \/ call_select_files_interactive

SpecParse == InitParse /\ [][NextParse]_vars


\* ------------------------------------------- torrent_to_magnet (348-361)
\* The keys of the info dictionaries explored, in byte order, and their
\* values; "\\xff" is a byte string that is no UTF-8.
InfoKeys == <<"name", "pieces">>
InfoValues == {"a b", "\\xff"}
Trackers == {"tracker1", "tracker2"}

\* The bencoded info dictionaries of at most n entries: the entries as the
\* file has them, in any order, a key possibly more than once.
RECURSIVE Infos(_)
Infos(n) ==
    IF n = 0 THEN {<<>>}
    ELSE Infos(n - 1)
         \cup {Append(i, [k |-> InfoKeys[x], v |-> v]) :
                 i \in {y \in Infos(n - 1) : Len(y) = n - 1},
                 x \in DOMAIN InfoKeys, v \in InfoValues}

\* The .torrent files explored: an announce URL outside the info dictionary.
Torrents == [announce : Trackers, info : Infos(MaxEntries)]

\* The place of a key in the byte order.
KeyRank(k) == CHOOSE x \in DOMAIN InfoKeys : InfoKeys[x] = k

\* The entries are in the order bencoding asks for: keys ascending, once each.
Sorted(entries) ==
    \A i \in 1 .. Len(entries) - 1 : KeyRank(entries[i].k) < KeyRank(entries[i + 1].k)

\* line 350: bencodepy.decode of a dictionary; an entry replaces the earlier
\* ones of its key
bdecode(entries) ==
    {entries[i] : i \in {x \in DOMAIN entries :
                           \A y \in DOMAIN entries : y > x => entries[y].k # entries[x].k}}

\* line 353: bencodepy.encode writes the entries in the byte order of the keys
RECURSIVE bencode(_, _)
bencode(d, keys) ==
    IF keys = <<>> THEN <<>>
    ELSE (IF \E e \in d : e.k = Head(keys)
          THEN <<CHOOSE e \in d : e.k = Head(keys)>> ELSE <<>>)
         \o bencode(d, Tail(keys))

\* line 354: the SHA-1 digest, taken to have no collisions: the digest
\* stands for the bytes it was computed from
sha1(bytes) == bytes

\* line 356: info.get(b'name', b'').decode('utf-8', errors='ignore')
name_of(info) ==
    IF \E e \in info : e.k = "name"
    THEN LET v == (CHOOSE e \in info : e.k = "name").v
         IN  IF v = "\\xff" THEN "" ELSE v
    ELSE ""

\* line 360: urllib.parse.quote
quote(name) == IF name = "a b" THEN "a%20b" ELSE name

\* The digest is taken of the whole decoded file.
torrent_to_magnet_of_file(t) ==
    LET info == bdecode(t.info)
        info_hash == sha1(<<[k |-> "announce", v |-> t.announce]>> \o bencode(info, InfoKeys))
        name == name_of(info)
    IN  [raised |-> FALSE, xt |-> info_hash,
         dn |-> IF name # "" THEN quote(name) ELSE ""]

\* lines 348-361: the magnet of a .torrent file; dn is "" when the magnet
\* has no dn parameter
torrent_to_magnet(t) ==
    LET info == bdecode(t.info)
        info_hash == sha1(bencode(info, InfoKeys))
        name == name_of(info)
    IN  [raised |-> FALSE, xt |-> info_hash,
         dn |-> IF name # "" THEN quote(name) ELSE ""]

\* lines 349-350: the conversion of the next file; a decoder that accepts
\* sorted dictionaries only raises on any other file
call_torrent_to_magnet ==
    /\ pc = "torrent" /\ Len(torrent.magnets) < Len(torrent.files)
    /\ LET t == torrent.files[Len(torrent.magnets) + 1] IN
       torrent' = [torrent EXCEPT !.magnets =
                      Append(@, IF torrent.sorted_only /\ ~Sorted(t.info)
                                THEN [raised |-> TRUE, xt |-> <<>>, dn |-> ""]
                                ELSE torrent_to_magnet(t))]
    /\ UNCHANGED <<tokens, fn, url, pc, loc, reqs, result, hist, parse>>

InitTorrent ==
    /\ tokens = {} /\ fn = "torrent_to_magnet" /\ url = <<>> /\ pc = "torrent"
    /\ loc = NoLocals /\ reqs = <<>> /\ result = List(<<>>) /\ hist = NoHist
    /\ parse = NoParse
    /\ \E a \in Torrents, b \in Torrents, strict \in BOOLEAN :
          torrent = [files |-> <<a, b>>, sorted_only |-> strict, magnets |-> <<>>]

NextTorrent == call_torrent_to_magnet

SpecTorrent == InitTorrent /\ [][NextTorrent]_vars


\* ================================================================= claims
\* ---- checked under SpecRank

\* The rank spec.md 4.6 gives a probe result: Supported+Cached, then
\* Supported+NotCached, then NotSupported, then Unknown.
RankOf(e) ==
    CASE e.support = "supported" /\ e.cached = "True" -> 0
      [] e.support = "supported" -> 1
      [] e.support = "not_supported" -> 2
      [] OTHER -> 3

\* C1: the list find_best_debrid presents, and indexes the choice against,
\* is ordered Supported+Cached, Supported+NotCached, NotSupported, Unknown.
RankerOrdering ==
    pc = "fb_menu" =>
        \A i, j \in DOMAIN loc.services :
            i < j => RankOf(loc.services[i]) <= RankOf(loc.services[j])

\* A delete request for the job follows the request that created it.
Deleted(j) ==
    \E i, k \in DOMAIN reqs :
        /\ i < k
        /\ reqs[i].svc = j.svc /\ reqs[i].kind = "submit"
        /\ reqs[k].svc = j.svc /\ reqs[k].kind = "delete" /\ reqs[k].arg = <<j.job>>

\* C3: once a probe has created a job, a delete request for that job is
\* attempted before the probe returns, on every path.
ProbeCleanupOnEveryPath == \A j \in hist.created : Deleted(j)

RDMagnet == fn = "get_real_debrid_links" /\ is_magnet(url)

\* C2: in a Real-Debrid magnet resolution select_files_interactive is
\* invoked at most once and selectFiles is sent at most once, however many
\* polls report waiting_files / waiting_files_selection afterwards.
SelectExactlyOnce ==
    RDMagnet => hist.select_calls <= 1 /\ Count(reqs, "select") <= 1

\* Two polls reported a waiting status after the selection was sent.
SelectExactlyOnceWitness ==
    /\ RDMagnet /\ hist.rewaits >= 2
    /\ hist.select_calls = 1 /\ Count(reqs, "select") = 1

\* C5: a resolution whose submission, polling or unlocking fails returns an
\* empty list: it never returns None and never ends in an uncaught exception.
FailedResolutionYieldsList ==
    /\ pc # "raised"
    /\ pc = "returned" => ~result.none

UnlockPcs == {"rd_unlock", "ad_unlock", "tb_unlock"}

\* The unlocking of the selected files of a magnet has begun.
UnlockStarted ==
    /\ fn \in {"get_real_debrid_links", "get_alldebrid_links", "get_torbox_links"}
    /\ is_magnet(url) /\ Count(reqs, "unlock") > 0

\* C6: whichever unlock requests fail, the resolution goes on to the other
\* selected files and returns exactly the URLs whose unlock succeeded, in
\* selection order.
UnlockFailureIsPerFile ==
    (UnlockStarted /\ pc \notin UnlockPcs \cup {"aborted"}) =>
        /\ pc # "raised"
        /\ pc = "returned" => result = List(loc.links)

\* The last poll of the resolution loop reported a failure status of the
\* provider.
FailureReported ==
    /\ hist.polls >= 1
    /\ CASE fn = "get_real_debrid_links" ->
                loc.status \in {"error", "dead", "virus", "magnet_error"}
         [] fn = "get_alldebrid_links" -> loc.status \in {"5", "11"}
         [] fn \in {"get_premiumize_links", "get_premiumize_links_from_nzb"} ->
                loc.status = "error"
         [] fn \in {"get_torbox_links", "get_torbox_links_from_nzb"} ->
                loc.status \in {"error", "stalled"}
         [] OTHER -> FALSE

\* C7: when the remote job reports a failure status the resolution stops
\* polling and returns an empty list.
ErrorEndsResolution ==
    FailureReported =>
        /\ pc \notin PollPcs \cup UnlockPcs \cup {"tbw_unlock", "tbn_unlock", "download"}
        /\ pc = "returned" => result = List(<<>>)

\* C8: a resolution of a remote job returns a non-empty list of URLs only if
\* some poll of the job reported the provider's READY condition.
ReadyOnlySuccessTerminal ==
    (pc = "returned" /\ loc.job # "" /\ ~result.none /\ result.urls # <<>>) => hist.ready

\* C9: a poll that fails with a connection error or a non-success HTTP status
\* does not end the resolution; the loop polls again.
PollErrorsSwallowed ==
    (loc.status \in {"raise", "http_error"} /\ ~hist.interrupted) => pc \in PollPcs

\* C10: after an interrupt no further request is issued, and the program has
\* left the polling loop for its exit.
Cancellation ==
    hist.interrupted =>
        /\ Len(reqs) = hist.reqs_at_int
        /\ pc \in {"aborted", "returned", "exited"}

\* An interrupt arrived in a polling loop that had polled a pending job.
CancellationWitness ==
    /\ hist.interrupted /\ hist.polls >= 1 /\ pc = "aborted"
    /\ reqs[Len(reqs)].kind = "poll"

\* ---- checked under SpecParse

\* The typed expression is empty or the literal all, in any letter case.
AllTyped ==
    /\ Len(parse.parts) = 1
    /\ parse.parts[1].text \in {<<>>, <<" ">>, <<"a", "l", "l">>, <<"A", "l", "L">>}

\* The full set 1..n, ascending.
FullSet(n) == [i \in 1 .. n |-> i]

\* C11: parse_selection returns the full set 1..maxIndex for the empty
\* string and for the literal all in any letter case.
ParseSelectionAllIsFullSet ==
    (parse.at = "parse_selection" /\ AllTyped /\ parse.parts[1].text # <<" ">>) =>
        ~parse.raised /\ parse.out = FullSet(parse.max_index)

\* C11 as amended: select_files_interactive returns every 0-based index of
\* the list for an empty line and for all in any letter case;
\* parse_selection itself returns the empty list for them.
SelectAllIsFullSet ==
    AllTyped =>
        /\ parse.at = "select_files_interactive" =>
              ~parse.raised /\ parse.out = [i \in 1 .. parse.max_index |-> i - 1]
        /\ parse.at = "parse_selection" => ~parse.raised /\ parse.out = <<>>

\* "AlL" was typed for a list of three files and all three were selected.
SelectAllIsFullSetWitness ==
    /\ parse.at = "select_files_interactive"
    /\ parse.parts = <<Other(<<"A", "l", "L">>)>>
    /\ parse.max_index = 3 /\ parse.out = <<0, 1, 2>>

\* The indexes a token stands for in a list of m entries: a single index
\* within 1..m, a range with both ends within 1..m and lo <= hi.
Valid(t, m) ==
    CASE t.kind = "single" -> IF 1 <= t.lo /\ t.lo <= m THEN {t.lo} ELSE {}
      [] t.kind = "range" ->
            IF t.lo <= t.hi /\ 1 <= t.lo /\ t.lo <= m /\ 1 <= t.hi /\ t.hi <= m
            THEN t.lo .. t.hi ELSE {}
      [] OTHER -> {}

Returned == {parse.out[i] : i \in DOMAIN parse.out}

\* C12: parse_selection returns exactly the union of the valid tokens; every
\* other token is discarded without affecting the others.
TolerantParsing ==
    parse.at = "parse_selection" =>
        /\ ~parse.raised
        /\ Returned = UNION {Valid(parse.parts[k], parse.max_index) : k \in DOMAIN parse.parts}

Inverted(t) == t.kind = "range" /\ t.lo > t.hi

RECURSIVE WithoutInverted(_)
WithoutInverted(parts) ==
    IF parts = <<>> THEN <<>>
    ELSE (IF Inverted(Head(parts)) THEN <<>> ELSE <<Head(parts)>>)
         \o WithoutInverted(Tail(parts))

\* C13: a token a-b with a > b adds no index: the outcome is that of the
\* expression without the token, and the empty list when nothing else is left.
InvertedRangeAddsNothing ==
    parse.at = "parse_selection" =>
        /\ [raised |-> parse.raised, sel |-> parse.out]
              = parse_selection(Join(WithoutInverted(parse.parts)), parse.max_index)
        /\ (\A k \in DOMAIN parse.parts : Inverted(parse.parts[k])) =>
              ~parse.raised /\ parse.out = <<>>

\* parse("5-2", 10) returned the empty list.
InvertedRangeAddsNothingWitness ==
    /\ parse.at = "parse_selection"
    /\ parse.parts = <<Range(<<"5", "-", "2">>, 5, 2)>>
    /\ parse.max_index = 10 /\ parse.out = <<>> /\ ~parse.raised

\* C14: the result of parse_selection is strictly ascending, without
\* duplicate, and every element lies in 1..maxIndex.
ResultAscendingInRange ==
    (parse.at = "parse_selection" /\ ~parse.raised) =>
        /\ \A i \in DOMAIN parse.out : 1 <= parse.out[i] /\ parse.out[i] <= parse.max_index
        /\ \A i, j \in DOMAIN parse.out : i < j => parse.out[i] < parse.out[j]

\* The overlapping ranges of "2-3,1-2" collapsed to 1, 2, 3.
ResultAscendingInRangeWitness ==
    /\ parse.at = "parse_selection"
    /\ parse.parts = <<Range(<<"2", "-", "3">>, 2, 3), Range(<<"1", "-", "2">>, 1, 2)>>
    /\ parse.max_index = 3 /\ parse.out = <<1, 2, 3>>

\* C15: parse_selection returns a list for every input and raises no error.
ParsingNeverRaises == parse.at = "parse_selection" => ~parse.raised

\* ------------------------------------------------------ polling cadence
\* C16 as stated: in every resolution loop the wait between two consecutive
\* polls of a job is one fixed interval of 3 to 5 seconds, the same on every
\* iteration whichever branch the iteration took.
PollingCadenceFixed ==
    \A w \in hist.waits :
        /\ w.secs \in 3 .. 5
        /\ \A v \in hist.waits : v.secs = w.secs

\* C16 as the code has it: the wait before the next poll is a constant of the
\* provider and of the branch the iteration took, between 2 and 6 seconds;
\* two iterations of a loop that take the same branch wait the same time,
\* however many polls came before (no backoff).
PollingCadencePerBranch ==
    \A w \in hist.waits :
        /\ w.secs \in 2 .. 6
        /\ \A v \in hist.waits : v.branch = w.branch => v.secs = w.secs

\* A job polled MaxPolls times whose iterations took two different branches.
PollingCadenceWitness ==
    /\ hist.polls = MaxPolls
    /\ \E w, v \in hist.waits : w.branch # v.branch /\ w.secs # v.secs

\* ------------------------------------------------- terminals of the loops
\* The running function polls one remote job in a loop.
Polling ==
    /\ hist.polls >= 1 /\ loc.job # ""
    /\ fn = "get_torbox_links" => ~is_magnet(url)

\* The last poll reported a state in which the provider is still working.
ProcessingReported ==
    /\ Polling
    /\ CASE fn = "get_real_debrid_links" ->
                loc.status \in {"magnet_conversion", "queued", "downloading"}
         [] fn = "get_alldebrid_links" -> loc.status \in {"0", "3"}
         [] fn \in {"get_premiumize_links", "get_premiumize_links_from_nzb"} ->
                loc.status \in {"running", "waiting", "queued"}
         [] fn = "get_torbox_links" -> loc.status \in tbw_pending
         [] fn = "get_torbox_links_from_nzb" -> loc.status \in tbn_pending
         [] fn = "get_debrid_link_links" ->
                loc.status \in DLStates /\ ~dl_complete(loc.progress)
         [] OTHER -> FALSE

\* The last poll could not be interpreted: no status field, or a status value
\* the adapter does not know.
UnexpectedShape ==
    /\ Polling
    /\ \/ loc.status \in {"no_status", "no_code", "unknown"}
       \/ fn = "get_alldebrid_links" /\ loc.status = "-1"
       \/ fn = "get_torbox_links_from_nzb" /\ loc.status = "completed"
       \/ fn = "get_torbox_links" /\ loc.status = "none"

\* The last poll reported a failure: a failure status, a job that is gone,
\* an answer that says the request failed, or an answer of unexpected shape.
ErrorObserved ==
    \/ FailureReported
    \/ Polling /\ loc.status \in {"missing", "empty", "api_error"}
    \/ UnexpectedShape

\* C17: there is no maximum retry count. After a poll that reports a
\* PROCESSING state the resolution is still in its loop, however many polls
\* came before; and a loop that was left was left on a READY observation, on
\* an ERROR observation or on cancellation (or, for Real-Debrid, by what the
\* operator typed at the selection prompt).
NoMaximumRetryCount ==
    /\ (ProcessingReported /\ ~hist.interrupted) => pc \in PollPcs
    /\ (Polling /\ pc \notin PollPcs) =>
          \/ hist.ready \/ hist.interrupted \/ ErrorObserved
          \/ fn = "get_real_debrid_links" /\ loc.status \in RDWaiting

\* C18: a poll answer of unexpected shape ends the resolution in ERROR: the
\* function has returned the empty list; it is neither still polling, nor
\* returning URLs, nor ending in an exception.
UnexpectedShapeIsError ==
    (UnexpectedShape /\ ~hist.interrupted) =>
        pc = "returned" /\ result = List(<<>>)

\* ------------------------------------------------- submission rejection
\* C19: when the remote API rejects the submit request, the resolution
\* returns the empty list, and the submit request is the last request it
\* issued: no poll, select or unlock follows.
SubmissionRejectionAborts ==
    hist.rejected =>
        /\ pc \in {"returned", "exited"}
        /\ result = List(<<>>)
        /\ reqs[Len(reqs)].kind = "submit"

\* ------------------------------------------------------ unknown fallback
\* C20: a probe whose request raised, timed out or got an answer that cannot
\* be parsed reports Unknown for its provider, not NotSupported or Supported.
UnknownFallback ==
    \A k \in DOMAIN loc.services :
        loc.services[k].name \in hist.probe_failed =>
            loc.services[k].support = "unknown"

\* ------------------------------------------------------ cloud folders
\* Request i asks a provider to unlock, or to look up in its cache, the link u.
ProbesLink(i, u) ==
    /\ reqs[i].svc \in Providers
    /\ reqs[i].kind \in {"unlock", "check"}
    /\ reqs[i].arg = u

\* C21: when the Ranker probes a cloud folder, no provider is asked to unlock
\* or to cache-check the folder URL itself, and every listed provider either
\* was probed with the first file link of the folder or is NotSupported.
CloudFolderProbing ==
    (fn = "find_best_debrid" /\ is_mega_folder(url)) =>
        /\ \A i \in DOMAIN reqs : ~ProbesLink(i, url)
        /\ \A k \in DOMAIN loc.services :
              \/ loc.services[k].support = "not_supported"
              \/ \E i \in DOMAIN reqs :
                    /\ reqs[i].svc = loc.services[k].name
                    /\ ProbesLink(i, FileLink(url, 1))


\* Request i hands the link u to a provider: as a job to create, as a link to
\* unlock, or as a link to look up in its cache.
HandsOver(i, u) ==
    /\ reqs[i].svc \in Providers
    /\ reqs[i].kind \in {"submit", "unlock", "check"}
    /\ reqs[i].arg = u

\* C22: in the resolution of a cloud folder the folder URL itself is never
\* submitted or unlocked, and every submit or unlock request comes after the
\* expansion of the folder into file links.
CloudFolderResolution ==
    (fn \in DOMAIN Owner /\ is_mega_folder(url)) =>
        \A i \in DOMAIN reqs :
            /\ ~HandsOver(i, url)
            /\ reqs[i].kind \in {"submit", "unlock"} =>
                  \E j \in 1 .. i - 1 : reqs[j].svc = "mega"


\* ------------------------------------------------- kinds of resource
\* The string begins with "magnet:" once the blanks around it are removed.
BeginsWithMagnet ==
    \E i \in DOMAIN url : url[i] = "magnet:" /\ \A j \in 1 .. i - 1 : url[j] = " "

\* The string carries the folder marker and the file marker, and is no magnet.
FileOfFolder ==
    /\ \E i \in DOMAIN url : url[i] = "mega.nz/folder/"
    /\ \E i \in DOMAIN url : url[i] = "/file/"
    /\ ~BeginsWithMagnet

\* C23: a string with the folder marker and the file marker is a hoster link
\* for every function: no request expands a folder, the first request of a
\* resolution hands the string itself to the provider, and every provider the
\* ranker lists was probed with the string itself.
FileLinkIsHosterLink ==
    FileOfFolder =>
        /\ \A i \in DOMAIN reqs :
              reqs[i].svc # "mega" /\ ~(reqs[i].kind = "list" /\ reqs[i].arg = url)
        /\ (fn # "find_best_debrid" /\ reqs # <<>>) =>
              HandsOver(1, url) /\ reqs[1].kind \in {"unlock", "check"}
        /\ \A k \in DOMAIN loc.services :
              \E i \in DOMAIN reqs :
                 reqs[i].svc = loc.services[k].name /\ ProbesLink(i, url)

\* The ranker has probed all five providers with a string of that kind.
FileLinkIsHosterLinkWitness ==
    /\ FileOfFolder
    /\ fn = "find_best_debrid" /\ pc = "fb_menu" /\ Len(loc.services) = 5


\* The endpoints that take a magnet: the submit of each resolution function
\* and the cache check of the Premiumize and Torbox probes.
MagnetEndpoints ==
    {"torrents/addMagnet", "magnet/upload", "transfer/create", "cache/check",
     "torrents/createtorrent", "torrents/checkcached", "seedbox/add"}

\* C24: a string that begins with "magnet:" once stripped is a magnet for
\* every function, whatever blanks surround it and whatever markers it
\* carries: no folder is expanded, the string is sent to magnet endpoints
\* only, and the first request of a resolution submits it.
MagnetHasPriority ==
    BeginsWithMagnet =>
        /\ \A i \in DOMAIN reqs :
              /\ reqs[i].svc # "mega"
              /\ reqs[i].arg = url => reqs[i].ep \in MagnetEndpoints
        /\ (fn # "find_best_debrid" /\ reqs # <<>>) =>
              reqs[1].kind = "submit" /\ reqs[1].arg = url
        /\ \A k \in DOMAIN loc.services :
              \E i \in DOMAIN reqs :
                 /\ reqs[i].svc = loc.services[k].name
                 /\ reqs[i].arg = url /\ reqs[i].ep \in MagnetEndpoints

\* The ranker has probed all five providers with a magnet that has a blank
\* before it and carries the folder marker.
MagnetHasPriorityWitness ==
    /\ BeginsWithMagnet /\ url[1] = " "
    /\ \E i \in DOMAIN url : url[i] = "mega.nz/folder/"
    /\ fn = "find_best_debrid" /\ pc = "fb_menu" /\ Len(loc.services) = 5


\* ------------------------------------------------ configured providers
\* C25: a provider without a token receives no request, is in no list of the
\* ranker and in no service menu; every provider with a token is in the
\* service menu, and the debrid entry of the first menu is printed whenever
\* some provider has a token.
OnlyConfiguredProviders ==
    /\ \A i \in DOMAIN reqs : reqs[i].svc \in Providers => reqs[i].svc \in tokens
    /\ \A k \in DOMAIN loc.services : loc.services[k].name \in tokens
    /\ pc # "main" =>
          /\ \A p \in Providers :
                p \in tokens <=> \E k \in DOMAIN hist.menu : hist.menu[k] = p
          /\ hist.debrid_entry <=> tokens # {}


\* ------------------------------------------------------ the ranker's list
\* The ranker has probed every provider it was going to probe.
Ranked == fn = "find_best_debrid" /\ pc \in {"fb_menu", "returned", "raised"}

\* C26: no provider is listed twice, and once the probes are done every
\* provider with a token is listed, with the result of its probe, whatever
\* that result is.
EveryConfiguredProviderListed ==
    /\ \A k, l \in DOMAIN loc.services :
          loc.services[k].name = loc.services[l].name => k = l
    /\ Ranked =>
          \A p \in tokens :
             \E k \in DOMAIN loc.services :
                /\ loc.services[k].name = p
                /\ loc.services[k].support \in {"supported", "not_supported", "unknown"}

\* All five providers are listed, one as NotSupported and one as Unknown.
EveryConfiguredProviderListedWitness ==
    /\ Ranked /\ Len(loc.services) = 5
    /\ \E k \in DOMAIN loc.services : loc.services[k].support = "not_supported"
    /\ \E k \in DOMAIN loc.services : loc.services[k].support = "unknown"


\* ------------------------------------------------------- ranker hand-off
\* The step from the ranker's menu into a resolution function: it issues no
\* request, keeps the resource string, and calls the function of a provider
\* of the list.
HandOff ==
    (pc = "fb_menu" /\ pc' = "call") =>
        /\ url' = url /\ reqs' = reqs
        /\ \E k \in DOMAIN loc.services : fn' = Resolver[loc.services[k].name]

\* C27: while it ranks, the ranker issues no request that unlocks the resource
\* into a download URL, and the pick of a listed provider starts one
\* resolution, of that provider, on the string that was probed.
RankerHandsOff ==
    /\ [](fn = "find_best_debrid" => \A i \in DOMAIN reqs : reqs[i].kind # "unlock")
    /\ [][HandOff]_vars


\* ------------------------------------------------------- progress data
\* C28: the progress a poll reports does not decide what the loop does: two
\* polls of a resolution that report the same job status either both go back
\* to the top of the loop or both leave it. (The statuses that await the
\* selection are left out: what follows them depends on what the operator
\* selects and on whether the selection was sent, not on the answer.)
ProgressDoesNotFeedBack ==
    \A a, b \in hist.seen :
        (a.status = b.status /\ a.status \notin RDWaiting) => a.went = b.went


\* ----------------------------------------------------- files of a job
\* Request i of the log comes after a poll or a listing of the job.
AfterFileList(i) ==
    \E j \in 1 .. i - 1 : reqs[j].kind \in {"poll", "list"} /\ reqs[j].arg = <<loc.job>>

\* C29: in the resolution of a job, the selection is called and an unlock
\* request is sent only after a poll or a listing of that job, and the files
\* offered to the selection are those of the last answer that listed files.
NoFileBeforeFileList ==
    loc.job # "" =>
        /\ \A i \in DOMAIN reqs : reqs[i].kind = "unlock" => AfterFileList(i)
        /\ hist.select_calls > 0 =>
              /\ AfterFileList(Len(reqs) + 1)
              /\ hist.offered = loc.nfiles

\* A job whose files were offered, with a file being unlocked.
NoFileBeforeFileListWitness ==
    /\ fn = "get_torbox_links" /\ pc = "tbw_unlock" /\ loc.job = "tbw1"
    /\ hist.polls > 0 /\ hist.select_calls = 1 /\ hist.offered = MaxFiles
    /\ \E i \in DOMAIN reqs : reqs[i].kind = "unlock"


\* ------------------------------------------------- one job per resolution
\* The ids of the jobs the providers answer with; "pm0" is the transfer
\* that was already on the Premiumize account.
JobIds == {"rd1", "ad1", "pm0", "pm1", "tb1", "tbw1", "tbn1", "dl1"}

\* The requests of the log that create a job.
Submits == {i \in DOMAIN reqs : reqs[i].kind = "submit"}

\* The requests of the log that name a job.
Named == {i \in DOMAIN reqs : reqs[i].arg # <<>> /\ Head(reqs[i].arg) \in JobIds}

\* C30: a resolution sends at most one request that creates a job, and every
\* request that names a job comes after that request and names the job the
\* resolution holds: the one the submit answered with or, for the duplicate
\* NZB of Premiumize, the transfer found in the list of the account.
OneJobPerResolution ==
    /\ Cardinality(Submits) <= 1
    /\ loc.job # "" => Submits # {}
    /\ loc.job = "pm0" =>
          \E i \in DOMAIN reqs : reqs[i].kind = "list" /\ reqs[i].arg = <<"nzb">>
    /\ \A i \in Named :
          /\ \E j \in Submits : j < i
          /\ loc.job # "" => Head(reqs[i].arg) = loc.job
          /\ \A k \in Named : Head(reqs[k].arg) = Head(reqs[i].arg)

\* A Torbox torrent listed, its files selected, and a file requested by the
\* id of the torrent.
OneJobPerResolutionWitness ==
    /\ loc.job = "tb1" /\ pc = "tb_unlock"
    /\ \E i \in DOMAIN reqs : reqs[i].kind = "unlock" /\ Head(reqs[i].arg) = "tb1"


\* ------------------------------------------------------- download phase
\* The download requests of the log, as indexes.
Downloads == {i \in DOMAIN reqs : reqs[i].kind = "download"}

\* The first k URLs of the resolution were requested, in their order, by the
\* last k requests of the log, and by no other request.
Attempted(k) ==
    /\ Cardinality(Downloads) = k
    /\ \A i \in 1 .. k :
          /\ Len(reqs) - k + i \in Downloads
          /\ reqs[Len(reqs) - k + i].arg = <<"url", ToString(result.urls[i])>>

\* C31: the download phase requests each URL of the resolution once, in the
\* order of the list, whether or not earlier downloads failed: while it runs,
\* the URLs before the remaining ones have been requested, and when it ends
\* all of them have.
DownloaderHandOff ==
    /\ pc = "download" =>
          /\ Len(loc.todo) <= Len(result.urls)
          /\ loc.todo = SubSeq(result.urls, Len(result.urls) - Len(loc.todo) + 1,
                               Len(result.urls))
          /\ Attempted(Len(result.urls) - Len(loc.todo))
    /\ (pc = "exited" /\ Downloads # {}) => Attempted(Len(result.urls))
    /\ (pc # "download" /\ ~(pc = "exited" /\ result.urls # <<>>)) => Downloads = {}

\* Two URLs were resolved, both downloads failed, and both were requested.
DownloaderHandOffWitness ==
    /\ pc = "exited" /\ Len(result.urls) = 2 /\ hist.failed = 2
    /\ Cardinality(Downloads) = 2


\* ------------------------------------------------- torrent to magnet
\* Both files were converted.
Converted ==
    /\ Len(torrent.magnets) = 2
    /\ ~torrent.magnets[1].raised /\ ~torrent.magnets[2].raised

\* C32: the magnet is a function of the info dictionary of the file: the
\* same file gives the same magnet, files with the same info dictionary give
\* the same info-hash whatever they hold outside it, and files whose info
\* dictionaries differ give different info-hashes.
MagnetIsFunctionOfInfo ==
    Converted =>
        /\ torrent.files[1] = torrent.files[2] => torrent.magnets[1] = torrent.magnets[2]
        /\ bdecode(torrent.files[1].info) = bdecode(torrent.files[2].info)
              => torrent.magnets[1].xt = torrent.magnets[2].xt
        /\ bdecode(torrent.files[1].info) # bdecode(torrent.files[2].info)
              => torrent.magnets[1].xt # torrent.magnets[2].xt

\* Two files of the same named info dictionary and different trackers were
\* converted to the same magnet.
MagnetIsFunctionOfInfoWitness ==
    /\ Converted
    /\ torrent.files[1].announce # torrent.files[2].announce
    /\ torrent.files[1].info = torrent.files[2].info
    /\ Len(torrent.files[1].info) = 2
    /\ torrent.magnets[1].dn = "a%20b"
    /\ torrent.magnets[1] = torrent.magnets[2]


\* ------------------------------------------------ unlocking and selection
\* The unlock requests of the log, as the files they name.
Unlocked == {reqs[i].arg : i \in {x \in DOMAIN reqs : reqs[x].kind = "unlock"}}

\* C33: while a torrent or an expanded cloud folder is resolved, an unlock
\* request is sent only after the selection was made, and for no more files
\* than were selected.
UnlockOnlySelected ==
    (pc \in Running /\ (loc.job # "" \/ is_mega_folder(url)) /\ Unlocked # {}) =>
        /\ hist.select_calls > 0
        /\ Cardinality(Unlocked) <= Len(loc.selected)


\* ------------------------------------------------- indexes of a selection
\* C34: the indexes select_files_interactive returns for a list of N files
\* lie in 0..N-1 and are strictly ascending; they are all of 0..N-1 when the
\* typed line is empty or all in any letter case, and otherwise the indexes
\* parse_selection returns for the line, each less one.
SelectionIndexes ==
    (parse.at = "select_files_interactive" /\ ~parse.raised) =>
        /\ \A i \in DOMAIN parse.out : 0 <= parse.out[i] /\ parse.out[i] <= parse.max_index - 1
        /\ \A i, j \in DOMAIN parse.out : i < j => parse.out[i] < parse.out[j]
        /\ IF AllTyped
           THEN parse.out = [i \in 1 .. parse.max_index |-> i - 1]
           ELSE \E raw \in {parse_selection(strip(parse.input), parse.max_index)} :
                   /\ ~raw.raised
                   /\ parse.out = [i \in DOMAIN raw.sel |-> raw.sel[i] - 1]

\* "2,4-6,99" was typed for a list of six files: indexes 1, 3, 4 and 5.
SelectionIndexesWitness ==
    /\ parse.at = "select_files_interactive" /\ ~parse.raised
    /\ parse.parts = <<Single(<<"2">>, 2), Range(<<"4", "-", "6">>, 4, 6),
                       Single(<<"9", "9">>, 99)>>
    /\ parse.max_index = 6 /\ parse.out = <<1, 3, 4, 5>>


\* ------------------------------------------- requests of the magnet probe
\* The requests sent to Real-Debrid, and those of them that delete a torrent.
RDRequests == {i \in DOMAIN reqs : reqs[i].svc = RD}
RDDeletes == {i \in RDRequests : reqs[i].kind = "delete"}

\* C35: while find_best_debrid ranks a magnet, the Real-Debrid probe has sent
\* one delete request when it created a torrent and none when it did not, and
\* the delete names the torrent and is the last request sent to Real-Debrid.
ProbeDeleteIsLast ==
    (fn = "find_best_debrid" /\ is_magnet(url)) =>
        /\ Cardinality(RDDeletes) = IF Job(RD, "rd1") \in hist.created THEN 1 ELSE 0
        /\ (\E i \in RDRequests : reqs[i].kind \in {"poll", "select"}) => RDDeletes # {}
        /\ \A d \in RDDeletes :
              /\ reqs[d].arg = <<"rd1">>
              /\ \A i \in RDRequests : i <= d
              /\ \E i \in RDRequests : i < d /\ reqs[i].kind = "submit"

\* The probe added the magnet, selected a file, asked for the info again and
\* deleted the torrent; another probe ran after it.
ProbeDeleteIsLastWitness ==
    /\ fn = "find_best_debrid" /\ is_magnet(url) /\ pc = "fb_menu"
    /\ Cardinality(RDRequests) = 5 /\ Cardinality(RDDeletes) = 1
    /\ reqs[5].kind = "delete" /\ Len(reqs) > 5

\* The probe sent its add request and created no torrent.
ProbeNoJobWitness ==
    /\ fn = "find_best_debrid" /\ is_magnet(url) /\ pc = "fb_menu"
    /\ Cardinality(RDRequests) = 1 /\ hist.created = {}


\* --------------------------------------------------------- empty selection
\* The step called the selection, which returned no index.
SelectedNothing ==
    /\ hist'.select_calls > hist.select_calls
    /\ loc'.selected = <<>> /\ pc' # "raised"

\* The positions where the files are unlocked before they are offered: the
\* MEGA folder branches of Real-Debrid and AllDebrid.
UnlocksFirst == {"rd_folder", "ad_folder"}

\* C36: a resolution whose selection returns no index returns the empty list
\* at once: the step that calls the selection sends no select request, and
\* no unlock request but those that come before the selection (the request
\* for the resource itself, whose answer lists the files, and the unlocking
\* of a folder's files before they are offered).
EmptySelectionEnds ==
    [][SelectedNothing =>
          /\ pc' = "returned" /\ result' = List(<<>>)
          /\ \A i \in DOMAIN reqs' :
                i > Len(reqs) =>
                   /\ reqs'[i].kind # "select"
                   /\ reqs'[i].kind = "unlock" =>
                         (reqs'[i].arg = url \/ pc \in UnlocksFirst)]_vars

\* The selection offered the two files of a Real-Debrid torrent and returned
\* no index: no selectFiles request was sent and the empty list is returned.
EmptySelectionEndsWitness ==
    /\ fn = "get_real_debrid_links" /\ pc = "returned" /\ loc.job = "rd1"
    /\ hist.select_calls = 1 /\ hist.offered = 2 /\ loc.selected = <<>>
    /\ result = List(<<>>)
    /\ \A i \in DOMAIN reqs : reqs[i].kind \notin {"select", "unlock"}


\* ------------------------------------------------- choice of a provider
\* The line is a decimal number: decimal digits only, at least one.
DecimalNumber(c) ==
    /\ c # <<>>
    /\ \A i \in DOMAIN c : c[i] \in {"0", "1", "2", "3", "4", "5", "6", "7", "8", "9"}

\* The step reads, at "Choose a service", a line that names no provider of
\* the list: no decimal number, or a number outside 1 .. number listed.
InvalidChoice ==
    /\ pc = "fb_menu" /\ hist'.choice # hist.choice
    /\ \/ ~DecimalNumber(hist'.choice)
       \/ DecimalValue(hist'.choice) \notin 1 .. Len(loc.services)

\* C37: on an invalid choice find_best_debrid returns the empty list and
\* sends no request.
InvalidChoiceStartsNothing ==
    [][InvalidChoice =>
          /\ pc' = "returned" /\ fn' = "find_best_debrid"
          /\ result' = List(<<>>) /\ reqs' = reqs]_vars


\* ------------------------------------------------ AllDebrid error cleanup
\* The step polls the magnet and the answer has a statusCode above 4.
ADErrorReported ==
    /\ pc = "ad_poll" /\ hist'.polls > hist.polls
    /\ loc'.status \in {ToString(code) : code \in {c \in ADCodes : c > 4}}

\* No status request for a magnet follows a delete request for it.
NoPollAfterDelete ==
    \A i, j \in DOMAIN reqs :
        (i < j /\ reqs[i].svc = AD /\ reqs[i].kind = "delete" /\ reqs[j].svc = AD)
            => ~(reqs[j].kind = "poll" /\ reqs[j].arg = reqs[i].arg)

\* C38: when a poll of an AllDebrid magnet reports a statusCode above 4, the
\* resolution sends a delete request for that magnet right after the poll
\* and ends, returning the empty list unless the delete request raised; no
\* poll of the magnet follows the delete.
ADErrorCleanup ==
    /\ [](fn = "get_alldebrid_links" => NoPollAfterDelete)
    /\ [][ADErrorReported =>
             /\ Len(reqs') = Len(reqs) + 2
             /\ reqs'[Len(reqs) + 1] = Req(AD, "magnet/status", "poll", <<loc.job>>)
             /\ reqs'[Len(reqs) + 2] = Req(AD, "magnet/delete", "delete", <<loc.job>>)
             /\ pc' \in {"returned", "raised"}
             /\ pc' = "returned" => result' = List(<<>>)]_vars

\* The second poll of the magnet reported statusCode 11; the magnet was
\* deleted and the empty list returned.
ADErrorCleanupWitness ==
    /\ fn = "get_alldebrid_links" /\ pc = "returned" /\ loc.status = "11"
    /\ hist.polls = 2 /\ result = List(<<>>)
    /\ reqs[Len(reqs)] = Req(AD, "magnet/delete", "delete", <<"ad1">>)

====
